---- MODULE Spec2Model ----
(***************************************************************************)
(* Model of the cleaning-booking Telegram bot: the FSM handlers of the     *)
(* handlers/ package, the keyboards' availability computation, the Google  *)
(* Calendar service functions, and the handlers main.py registers.         *)
(*                                                                         *)
(* Times of day are minutes since midnight; dates are day ordinals (0 is   *)
(* Monday 2026-06-01, the reference "today"); instants are minutes of UTC  *)
(* counted from ordinal 0, 00:00 UTC.                                      *)
(***************************************************************************)
EXTENDS Integers, Sequences, FiniteSets, TLC

VARIABLES
    fsm,        \* conversation -> FSM state of its FSMContext (NONE = idle)
    data,       \* conversation -> FSM data dict of its FSMContext (the draft)
    calendar,   \* events of the Google calendar, in insertion order
    tz,         \* UTC offsets (minutes) of CALENDAR_TIMEZONE and of the host's local zone
    last,       \* the update handled last: conversation, event, its input (the
                \* callback data or the text), whether the conversation was
                \* idle before it, effects in order
    slotsCall,  \* the last direct call of a function run alone
                \* (generate_available_time_slots, get_date_selection_keyboard,
                \* get_next_working_days, calculate_cleaning_price), or the
                \* effects of main.py's handler where it runs side by side
                \* with the package's
    inflight    \* message -> the task handling it, where updates are handled
                \* as concurrent tasks: the Telegram call it awaits, the
                \* dict its get_data returned, its effects so far

vars == <<fsm, data, calendar, tz, last, slotsCall, inflight>>

NONE == "None"

----------------------------------------------------------------------------
(* datetime.time / datetime.date                                           *)

MinutesPerDay == 24 * 60

Hour(t) == t \div 60
Minute(t) == t % 60

\* time(hour, minute): the caller checks TimeValid first, as time() raises
\* ValueError for an hour outside 0..23
TimeValid(hour) == hour >= 0 /\ hour <= 23
Time(hour, minute) == hour * 60 + minute

\* date.weekday(): Monday is 0, Sunday is 6
Weekday(d) == d % 7

----------------------------------------------------------------------------
(* config.py                                                               *)

CALENDAR_WORK_START == Time(8, 0)
CALENDAR_WORK_END == Time(18, 0)
CALENDAR_SLOT_INTERVAL_HOURS == 2
CALENDAR_CLEANING_DURATION_HOURS == 2

----------------------------------------------------------------------------
(* services/calendar_service.py                                            *)

\* An event of the calendar: its instants, and who inserted it.
Event(start, end, by) == [start |-> start, end |-> end, by |-> by]

\* The instant of a wall-clock time of CALENDAR_TIMEZONE on a date
\* (datetime.combine(date, time, tzinfo=ZoneInfo(CALENDAR_TIMEZONE))).
Instant(d, t) == d * MinutesPerDay + t - tz.cal

\* datetime.astimezone().time(): the wall-clock time of an instant in the
\* host's local zone; the date is dropped.
LocalTime(instant) == (instant + tz.loc) % MinutesPerDay

\* The events the freebusy query returns for the window
\* [date 00:00 UTC, date 23:59:59.999999 UTC].
InWindow(e, date_obj) ==
    /\ e.start < (date_obj + 1) * MinutesPerDay
    /\ e.end > date_obj * MinutesPerDay

RECURSIVE ByStart(_)
ByStart(S) ==
    IF S = {} THEN <<>>
    ELSE LET e == CHOOSE x \in S : \A y \in S : <<x.start, x.end>> = <<y.start, y.end>>
                                        \/ x.start < y.start
                                        \/ (x.start = y.start /\ x.end <= y.end)
         IN <<e>> \o ByStart(S \ {e})

BusyPeriods(date_obj) ==
    ByStart({[start |-> calendar[i].start, end |-> calendar[i].end] :
                i \in {j \in 1..Len(calendar) : InWindow(calendar[j], date_obj)}})

\* calendar_service is "none" (no credentials: the None of
\* get_calendar_service), "ok", or "failing" (the freebusy query raises).
get_busy_time_slots(calendar_service, date_obj) ==
    IF calendar_service = "none" THEN <<>>
    ELSE IF calendar_service = "failing" THEN <<>>
    ELSE LET periods == BusyPeriods(date_obj)
         IN [i \in 1..Len(periods) |->
                <<LocalTime(periods[i].start), LocalTime(periods[i].end)>>]

\* The loop runs while current_time <= work_end
RECURSIVE AllSlots_InclusiveEnd(_, _, _)
AllSlots_InclusiveEnd(current_time, work_end, slot_interval_hours) ==
    IF ~(current_time <= work_end) THEN <<>>
    ELSE LET hour == Hour(current_time) + slot_interval_hours
         IN IF hour >= 24 THEN <<current_time>>
            ELSE <<current_time>> \o
                 AllSlots_InclusiveEnd(Time(hour, Minute(current_time)), work_end,
                                       slot_interval_hours)

\* The while loop of lines 218-224.
RECURSIVE AllSlots(_, _, _)
AllSlots(current_time, work_end, slot_interval_hours) ==
    IF ~(current_time < work_end) THEN <<>>
    ELSE LET hour == Hour(current_time) + slot_interval_hours
         IN IF hour >= 24 THEN <<current_time>>
            ELSE <<current_time>> \o
                 AllSlots(Time(hour, Minute(current_time)), work_end, slot_interval_hours)

\* The condition of lines 242-243 for one busy period: "busy", "free", or
\* "ValueError" when time(slot.hour + slot_interval_hours, ...) is evaluated
\* with an hour above 23 (it is evaluated only after busy_start <= slot <
\* busy_end failed and slot <= busy_start held).
SlotOverlaps(slot, busy_start, busy_end, slot_interval_hours) ==
    IF busy_start <= slot /\ slot < busy_end THEN "busy"
    ELSE IF ~(slot <= busy_start) THEN "free"
    ELSE IF ~TimeValid(Hour(slot) + slot_interval_hours) THEN "ValueError"
    ELSE IF busy_start < Time(Hour(slot) + slot_interval_hours, Minute(slot))
         THEN "busy" ELSE "free"

\* The inner loop of lines 239-245 from the i-th busy period on.
RECURSIVE SlotStatus(_, _, _, _)
SlotStatus(slot, busy_slots, i, slot_interval_hours) ==
    IF i > Len(busy_slots) THEN "free"
    ELSE LET r == SlotOverlaps(slot, busy_slots[i][1], busy_slots[i][2],
                               slot_interval_hours)
         IN IF r = "free" THEN SlotStatus(slot, busy_slots, i + 1, slot_interval_hours)
            ELSE r

\* The result of a call: the list returned, or raised = TRUE; queried says
\* whether get_busy_time_slots was called on the way.
Returned(slots) == [raised |-> FALSE, slots |-> slots, queried |-> FALSE]
Raised == [raised |-> TRUE, slots |-> <<>>, queried |-> FALSE]
Queried(r) == [r EXCEPT !.queried = TRUE]

FilterSlots(all_slots, busy_slots, slot_interval_hours) ==
    IF \E i \in 1..Len(all_slots) :
          SlotStatus(all_slots[i], busy_slots, 1, slot_interval_hours) = "ValueError"
    THEN Raised
    ELSE Returned(SelectSeq(all_slots,
            LAMBDA s : SlotStatus(s, busy_slots, 1, slot_interval_hours) = "free"))

\* Without a calendar service no slot is offered
generate_available_time_slots_NoServiceNoSlots(date_obj, calendar_service, work_start, work_end, slot_interval_hours) ==
    IF Weekday(date_obj) >= 5 \/ calendar_service = "none" THEN Returned(<<>>)
    ELSE Queried(FilterSlots(AllSlots(work_start, work_end, slot_interval_hours),
                             get_busy_time_slots(calendar_service, date_obj),
                             slot_interval_hours))

\* Saturdays and Sundays are working days like the others
generate_available_time_slots_WeekendsOpen(date_obj, calendar_service, work_start, work_end, slot_interval_hours) ==
    LET all_slots == AllSlots(work_start, work_end, slot_interval_hours)
    IN IF calendar_service = "none" THEN Returned(all_slots)
       ELSE Queried(FilterSlots(all_slots, get_busy_time_slots(calendar_service, date_obj),
                                slot_interval_hours))

generate_available_time_slots(date_obj, calendar_service, work_start, work_end, slot_interval_hours) ==
    IF Weekday(date_obj) >= 5 THEN Returned(<<>>)
    ELSE LET all_slots == AllSlots(work_start, work_end, slot_interval_hours)
         IN IF calendar_service = "none" THEN Returned(all_slots)
            ELSE Queried(FilterSlots(all_slots,
                                     get_busy_time_slots(calendar_service, date_obj),
                                     slot_interval_hours))

\* create_calendar_event: the event id (here TRUE) or None (FALSE), and the
\* calendar afterwards. calendar_service is "none", "ok" or "failing" (the
\* insert raises, which the function catches).
create_calendar_event(calendar_service, start_datetime, end_datetime, by) ==
    IF calendar_service = "ok"
    THEN [id |-> TRUE, calendar |-> Append(calendar, Event(start_datetime, end_datetime, by))]
    ELSE [id |-> FALSE, calendar |-> calendar]

----------------------------------------------------------------------------
(* Strings: strftime, isoformat and their parsers                          *)

TwoDigits == <<"00", "01", "02", "03", "04", "05", "06", "07", "08", "09", "10", "11",
               "12", "13", "14", "15", "16", "17", "18", "19", "20", "21", "22", "23",
               "24", "25", "26", "27", "28", "29", "30", "31", "32", "33", "34", "35",
               "36", "37", "38", "39", "40", "41", "42", "43", "44", "45", "46", "47",
               "48", "49", "50", "51", "52", "53", "54", "55", "56", "57", "58", "59">>

\* slot.strftime("%H:%M"), as the parts between the colons
StrfTime(t) == <<TwoDigits[Hour(t) + 1], TwoDigits[Minute(t) + 1]>>

\* int(s) of a two-digit decimal string: defined when IsInt(s)
IsInt(s) == \E n \in 0..59 : TwoDigits[n + 1] = s
IntOf(s) == CHOOSE n \in 0..59 : TwoDigits[n + 1] = s

\* date.isoformat() of the ordinals after today, and date.fromisoformat
IsoDates == <<"2026-06-02", "2026-06-03", "2026-06-04", "2026-06-05", "2026-06-06",
              "2026-06-07", "2026-06-08", "2026-06-09", "2026-06-10", "2026-06-11",
              "2026-06-12", "2026-06-13", "2026-06-14", "2026-06-15", "2026-06-16",
              "2026-06-17", "2026-06-18", "2026-06-19", "2026-06-20", "2026-06-21",
              "2026-06-22">>

Today == 0
IsoFormat(d) == IsoDates[d]
IsIsoDate(s) == \E d \in 1..Len(IsoDates) : IsoDates[d] = s
FromIsoFormat(s) == CHOOSE d \in 1..Len(IsoDates) : IsoDates[d] = s

----------------------------------------------------------------------------
(* services/date_utils.py                                                  *)

RECURSIVE NextWorkingDays(_, _)
NextWorkingDays(current_date, count) ==
    IF count <= 0 THEN <<>>
    ELSE IF Weekday(current_date) < 5
         THEN <<current_date>> \o NextWorkingDays(current_date + 1, count - 1)
         ELSE NextWorkingDays(current_date + 1, count)

\* The walk starts on the reference day itself
WorkingDaysFrom_IncludesToday(today, count) == NextWorkingDays(today, count)

\* get_next_working_days when date.today() is today: the walk starts from
\* tomorrow
WorkingDaysFrom(today, count) == NextWorkingDays(today + 1, count)

get_next_working_days(count) == WorkingDaysFrom(Today, count)

----------------------------------------------------------------------------
(* keyboards/: a keyboard is the list of its buttons' callback data, each   *)
(* callback data being the list of its parts between the colons             *)

get_start_keyboard == << <<"calculate_price">>, <<"book_cleaning">> >>

get_cleaning_type_keyboard ==
    << <<"cleaning_type", "maintenance">>, <<"cleaning_type", "deep">>,
       <<"cleaning_type", "post_renovation">> >>

get_property_type_keyboard ==
    << <<"property_type", "apartment">>, <<"property_type", "house">> >>

get_book_cleaning_keyboard == << <<"book_cleaning">> >>

SearchDays == 14
TargetDays == 5

\* The loop of lines 118-143 over working_days from index i on.
RECURSIVE DateButtons(_, _, _, _)
DateButtons(working_days, i, calendar_service, available_days_count) ==
    IF i > Len(working_days) \/ available_days_count >= TargetDays THEN <<>>
    ELSE LET available_slots ==
                 generate_available_time_slots(working_days[i], calendar_service,
                     CALENDAR_WORK_START, CALENDAR_WORK_END,
                     CALENDAR_SLOT_INTERVAL_HOURS).slots
         IN IF available_slots # <<>>
            THEN << <<"select_date", IsoFormat(working_days[i])>> >> \o
                 DateButtons(working_days, i + 1, calendar_service,
                             available_days_count + 1)
            ELSE DateButtons(working_days, i + 1, calendar_service,
                             available_days_count)

\* The next working days are offered without asking the calendar
get_date_selection_keyboard_Unfiltered(calendar_service) ==
    [i \in 1..TargetDays |->
        <<"select_date", IsoFormat(get_next_working_days(TargetDays)[i])>>]

get_date_selection_keyboard(calendar_service) ==
    LET buttons == DateButtons(get_next_working_days(SearchDays), 1, calendar_service, 0)
    IN IF buttons = <<>> THEN << <<"no_available_days">> >> ELSE buttons

get_time_selection_keyboard(selected_date, calendar_service) ==
    LET available_slots ==
            generate_available_time_slots(selected_date, calendar_service,
                CALENDAR_WORK_START, CALENDAR_WORK_END,
                CALENDAR_SLOT_INTERVAL_HOURS).slots
        buttons == [i \in 1..Len(available_slots) |->
                        <<"select_time">> \o StrfTime(available_slots[i])]
    IN IF buttons = <<>> THEN << <<"no_slots_available">> >> ELSE buttons

get_location_keyboard == << <<"request_location">> >>

----------------------------------------------------------------------------
(* A handler run. x is the run so far: st and d are the conversation's FSM  *)
(* state and data, cal the calendar, out the effects in order, n the        *)
(* number of Telegram calls made for the user, faults the numbers of the    *)
(* calls that raise, exc whether an exception is propagating (every         *)
(* statement is skipped while one is).                                      *)

Conv == {"A", "B"}

EmptyData == [k \in {} |-> NONE]

Run(c, faults) ==
    [st |-> fsm[c], d |-> data[c], cal |-> calendar, out |-> <<>>, n |-> 0,
     faults |-> faults, exc |-> FALSE]

Effect(msg, kb, arg) == [msg |-> msg, kb |-> kb, arg |-> arg]

\* message.answer / callback.answer / callback.message.answer
Answer(x, msg, kb, arg) ==
    IF x.exc THEN x
    ELSE IF (x.n + 1) \in x.faults
         THEN [x EXCEPT !.n = @ + 1, !.exc = TRUE,
                        !.out = Append(@, Effect("TelegramError", <<>>, <<msg>>))]
         ELSE [x EXCEPT !.n = @ + 1, !.out = Append(@, Effect(msg, kb, arg))]

Say(x, msg) == Answer(x, msg, <<>>, <<>>)

\* FSMContext.set_state / update_data / clear on the conversation's own key
set_state(x, s) == IF x.exc THEN x ELSE [x EXCEPT !.st = s]

update_data(x, u) ==
    IF x.exc THEN x
    ELSE [x EXCEPT !.d = [k \in DOMAIN u \cup DOMAIN x.d |->
                             IF k \in DOMAIN u THEN u[k] ELSE x.d[k]]]

clear(x) ==
    IF x.exc THEN x
    ELSE [x EXCEPT !.st = NONE, !.d = EmptyData,
                   !.out = Append(@, Effect("state.clear", <<>>, <<>>))]

\* The keys whose value is a part of callback data: a str, which is falsy
\* when empty (an address is at least 5 characters and an area is above 0)
CallbackKeys == {"cleaning_type", "property_type", "selected_date", "selected_time"}

\* data.get(k) is truthy
Has(d, k) == k \in DOMAIN d /\ (k \in CallbackKeys => d[k] # "")

\* except Exception: the handler h runs on the run with the exception caught
Caught(x) == [x EXCEPT !.exc = FALSE]

----------------------------------------------------------------------------
(* handlers/start.py                                                       *)

show_menu(x) ==
    IF x.exc THEN x
    ELSE Caught(Answer(x, "menu", get_start_keyboard, <<>>))

start_command_handler_WithoutClear(x) == show_menu(x)

start_command_handler(x) == show_menu(clear(x))

----------------------------------------------------------------------------
(* handlers/callbacks.py; callback_data is the list of the parts of         *)
(* callback.data between the colons, so split(":")[1] is callback_data[2]   *)

StartsWith(callback_data, prefix) ==
    Len(callback_data) >= 2 /\ callback_data[1] = prefix

_handle_calculate_price(x) ==
    Answer(set_state(x, "selecting_cleaning_type"),
           "choose_cleaning_type", get_cleaning_type_keyboard, <<>>)

_handle_cleaning_type_selection(x, callback_data) ==
    LET cleaning_type == callback_data[2]
    IN Answer(set_state(update_data(x, [cleaning_type |-> cleaning_type]),
                        "selecting_property_type"),
              "choose_property_type", get_property_type_keyboard, <<cleaning_type>>)

_handle_property_type_selection(x, callback_data) ==
    LET property_type == callback_data[2]
    IN Answer(set_state(update_data(x, [property_type |-> property_type]),
                        "entering_area"),
              "enter_area", <<>>, <<property_type>>)

\* get_calendar_service() raising inside a keyboard is an exception of the
\* handler
KeyboardRaises(x, calendar_service) ==
    IF x.exc \/ calendar_service # "raises" THEN x ELSE [x EXCEPT !.exc = TRUE]

_handle_book_cleaning(x, calendar_service) ==
    LET x1 == KeyboardRaises(set_state(x, "selecting_date"), calendar_service)
    IN IF x1.exc THEN x1
       ELSE Answer(x1, "choose_date", get_date_selection_keyboard(calendar_service), <<>>)

_handle_date_selection(x, callback_data, calendar_service) ==
    LET date_str == callback_data[2]
    IN IF ~IsIsoDate(date_str)
       THEN Say(x, "date_format_error")
       ELSE LET selected_date == FromIsoFormat(date_str)
                x1 == set_state(update_data(x, [selected_date |-> date_str]),
                                "selecting_time")
                x2 == KeyboardRaises(x1, calendar_service)
            IN IF x2.exc THEN x2
               ELSE Answer(x2, "choose_time",
                           get_time_selection_keyboard(selected_date, calendar_service),
                           <<date_str>>)

_handle_time_selection(x, callback_data) ==
    LET time_str == callback_data[2]
        x1 == update_data(x, [selected_time |-> time_str])
    IN IF ~Has(x1.d, "selected_date")
       THEN clear(Say(x1, "date_not_saved"))
       ELSE Answer(set_state(x1, "entering_address"),
                   "enter_address", get_location_keyboard,
                   <<x1.d["selected_date"], time_str>>)

_handle_no_slots_available(x) == Say(x, "no_slots_on_date")

_handle_no_available_days(x) == Say(x, "no_available_days")

Route(x, callback_data, calendar_service) ==
    IF callback_data = <<"calculate_price">> THEN _handle_calculate_price(x)
    ELSE IF StartsWith(callback_data, "cleaning_type")
         THEN _handle_cleaning_type_selection(x, callback_data)
    ELSE IF StartsWith(callback_data, "property_type")
         THEN _handle_property_type_selection(x, callback_data)
    ELSE IF callback_data = <<"book_cleaning">>
         THEN _handle_book_cleaning(x, calendar_service)
    ELSE IF StartsWith(callback_data, "select_date")
         THEN _handle_date_selection(x, callback_data, calendar_service)
    ELSE IF StartsWith(callback_data, "select_time")
         THEN _handle_time_selection(x, callback_data)
    ELSE IF callback_data = <<"no_slots_available">> THEN _handle_no_slots_available(x)
    ELSE IF callback_data = <<"no_available_days">> THEN _handle_no_available_days(x)
    ELSE Say(x, "unknown_action")

callback_handler(x, callback_data, calendar_service) ==
    LET body == Route(Say(x, "callback.answer"), callback_data, calendar_service)
    IN IF body.exc THEN clear(Say(Caught(body), "error")) ELSE body

Elements(seq) == {seq[i] : i \in 1..Len(seq)}

----------------------------------------------------------------------------
(* Message texts: str.strip, len and float of the texts a user sends        *)

TextTable ==
    { [text |-> "60",            strip |-> "60",            float |-> <<60>>],
      [text |-> "0",             strip |-> "0",             float |-> <<0>>],
      [text |-> "50",            strip |-> "50",            float |-> <<50>>],
      [text |-> "151",           strip |-> "151",           float |-> <<151>>],
      [text |-> "abc",           strip |-> "abc",           float |-> <<>>],
      [text |-> "  ab  ",        strip |-> "ab",            float |-> <<>>],
      [text |-> "Main street 5", strip |-> "Main street 5", float |-> <<>>],
      [text |-> "/help",         strip |-> "/help",         float |-> <<>>] }

TextRow(text) == CHOOSE r \in TextTable : r.text = text
Strip(text) == TextRow(text).strip
\* float(text.strip()): <<value>> (in m2; the numbers of the table are whole),
\* or <<>> for ValueError
Float(text) == TextRow(text).float

\* len() of the texts and of their stripped forms
Lengths ==
    { <<"60", 2>>, <<"0", 1>>, <<"50", 2>>, <<"151", 3>>, <<"abc", 3>>, <<"  ab  ", 6>>, <<"ab", 2>>,
      <<"Main street 5", 13>>, <<"/help", 5>> }
StrLen(s) == (CHOOSE r \in Lengths : r[1] = s)[2]
IsCommand(text) == text = "/help"

----------------------------------------------------------------------------
(* services/pricing.py: the keys of base_prices and property_multipliers    *)

base_prices == {"maintenance", "deep", "post_renovation"}
property_multipliers == {"apartment", "house"}

\* A float: a finite number (v, in a unit the context fixes), a finite number
\* so large that its product with a base price overflows (1e307), inf or nan
Fin(v) == [k |-> "fin", v |-> v]
Huge == [k |-> "huge", v |-> 0]
Inf == [k |-> "inf", v |-> 0]
NaN == [k |-> "nan", v |-> 0]

\* The values of base_prices (UAH per m2), of property_multipliers (in
\* tenths) and of area_multiplier (in twentieths)
BasePricePerM2 == [maintenance |-> 50, deep |-> 80, post_renovation |-> 120]
PropertyMultiplier == [apartment |-> 10, house |-> 13]
AreaMultiplier(discount_percent) ==
    CASE discount_percent = 0 -> 20 [] discount_percent = 5 -> 19
      [] discount_percent = 10 -> 18 [] discount_percent = 15 -> 17

\* The bounds of the tiers are exclusive
AreaTier_ExclusiveBounds(area_m2) ==
    IF area_m2.k = "fin" /\ area_m2.v < 5000 THEN 0
    ELSE IF area_m2.k = "fin" /\ area_m2.v < 10000 THEN 5
    ELSE IF area_m2.k = "fin" /\ area_m2.v < 15000 THEN 10
    ELSE 15

\* discount_percent of lines 47-58; a finite area_m2 is in hundredths of a
\* m2, and every comparison of the chain is false for 1e307, inf and nan
AreaTier(area_m2) ==
    IF area_m2.k = "fin" /\ area_m2.v <= 5000 THEN 0
    ELSE IF area_m2.k = "fin" /\ area_m2.v <= 10000 THEN 5
    ELSE IF area_m2.k = "fin" /\ area_m2.v <= 15000 THEN 10
    ELSE 15

\* base_price_per_m2 * area_m2 * property_multiplier * m / 20, in units of
\* 1/20000 UAH: exact for the areas of the model, inf when the area is inf or
\* the product overflows, nan for nan
Product(base_price_per_m2, area_m2, property_multiplier, m) ==
    IF area_m2.k = "fin" THEN Fin(base_price_per_m2 * area_m2.v * property_multiplier * m)
    ELSE IF area_m2.k = "nan" THEN NaN ELSE Inf

\* a - b in floats: inf - inf is nan
Minus(a, b) ==
    IF a.k = "nan" \/ b.k = "nan" \/ (a.k = "inf" /\ b.k = "inf") THEN NaN
    ELSE IF a.k = "inf" THEN Inf
    ELSE Fin(a.v - b.v)

\* round(x, 2) of a value in units of 1/20000 UAH, in cents. A value half-way
\* between two cents goes where its binary representation is nearer: up
\* says which way.
Round2(x, up) ==
    IF x.k # "fin" THEN x
    ELSE IF x.v % 200 = 100 THEN Fin(x.v \div 200 + (IF up THEN 1 ELSE 0))
    ELSE Fin((x.v + 100) \div 200)

\* up gives the direction of the half-way cases of the three amounts; the
\* final price of the first tier is the price before discount times 1.0,
\* the same float
calculate_cleaning_price(cleaning_type, property_type, area_m2, up) ==
    LET discount_percent == AreaTier(area_m2)
        area_multiplier == AreaMultiplier(discount_percent)
        base_price_per_m2 == BasePricePerM2[cleaning_type]
        property_multiplier == PropertyMultiplier[property_type]
        price_before_discount ==
            Product(base_price_per_m2, area_m2, property_multiplier, 20)
        final_price ==
            Product(base_price_per_m2, area_m2, property_multiplier, area_multiplier)
        discount_amount == Minus(price_before_discount, final_price)
    IN [base_price_per_m2 |-> base_price_per_m2,
        area_m2 |-> area_m2,
        property_multiplier |-> property_multiplier,
        price_before_discount |-> Round2(price_before_discount, up.p),
        discount_percent |-> discount_percent,
        discount_amount |-> Round2(discount_amount, up.d),
        final_price |-> Round2(final_price, IF area_multiplier = 20 THEN up.p ELSE up.f)]

----------------------------------------------------------------------------
(* handlers/cleaning.py                                                    *)

\* The float an area of whole m2 is, in the unit of calculate_cleaning_price
AreaM2(area) == Fin(area * 100)

\* The amounts of a whole number of m2 are whole multiples of 0.05 UAH: none
\* is half-way between two cents, and round() has one result
NoTie == [p |-> FALSE, f |-> FALSE, d |-> FALSE]

\* result_message: the names of the two types, the area, and the amounts it
\* prints (the price before discount and the discount only when there is one)
PriceMessage(cleaning_type, property_type, area, price_info) ==
    <<cleaning_type, property_type, area,
      IF price_info.discount_percent > 0
      THEN [price_before_discount |-> price_info.price_before_discount,
            discount_percent |-> price_info.discount_percent,
            discount_amount |-> price_info.discount_amount,
            final_price |-> price_info.final_price]
      ELSE [final_price |-> price_info.final_price]>>

\* calculate_cleaning_price as process_area_input calls it
QuoteFor(cleaning_type, property_type, area) ==
    PriceMessage(cleaning_type, property_type, area,
                 calculate_cleaning_price(cleaning_type, property_type, AreaM2(area), NoTie))

\* The location of the event: the calendar address if there is one,
\* otherwise the display address
calendar_address(d) ==
    IF Has(d, "address_calendar") THEN d["address_calendar"]
    ELSE IF Has(d, "address") THEN d["address"] ELSE NONE

\* The date and the time are combined without CALENDAR_TIMEZONE, as UTC
CalendarAttempt_NaiveUtc(x, selected_date_str, selected_time, calendar_service) ==
    IF ~IsIsoDate(selected_date_str) \/ ~IsInt(selected_time)
       \/ ~TimeValid(IntOf(selected_time)) \/ calendar_service = "raises"
    THEN [x EXCEPT !.out = Append(@, Effect("calendar", <<>>, <<"raised">>))]
    ELSE LET start_datetime == FromIsoFormat(selected_date_str) * MinutesPerDay
                               + Time(IntOf(selected_time), 0)
             end_datetime == start_datetime + CALENDAR_CLEANING_DURATION_HOURS * 60
             r == create_calendar_event(calendar_service, start_datetime,
                                        end_datetime, "flow")
         IN [x EXCEPT !.cal = r.calendar,
                      !.out = Append(@, Effect("calendar", <<>>,
                                  <<IF r.id THEN "created" ELSE "no_event_id",
                                    calendar_address(x.d)>>))]

\* The try block of _create_calendar_event once date and time are set:
\* "raised" when the time does not parse or is no hour of the day, or
\* get_calendar_service raises.
CalendarAttempt(x, selected_date_str, selected_time, calendar_service) ==
    IF ~IsIsoDate(selected_date_str) \/ ~IsInt(selected_time)
       \/ ~TimeValid(IntOf(selected_time)) \/ calendar_service = "raises"
    THEN [x EXCEPT !.out = Append(@, Effect("calendar", <<>>, <<"raised">>))]
    ELSE LET selected_date == FromIsoFormat(selected_date_str)
             \* selected_time holds one part of the callback data, so
             \* selected_time.split(':') has one element
             hour == IntOf(selected_time)
             minute == 0
             start_datetime == Instant(selected_date, Time(hour, minute))
             end_datetime == start_datetime + CALENDAR_CLEANING_DURATION_HOURS * 60
             r == create_calendar_event(calendar_service, start_datetime,
                                        end_datetime, "flow")
         IN [x EXCEPT !.cal = r.calendar,
                      !.out = Append(@, Effect("calendar", <<>>,
                                  <<IF r.id THEN "created" ELSE "no_event_id",
                                    calendar_address(x.d)>>))]

\* The exception of a failed submission leaves the function
_create_calendar_event_Propagates(x, calendar_service) ==
    IF x.exc THEN x
    ELSE IF ~Has(x.d, "selected_date") \/ ~Has(x.d, "selected_time") THEN x
    ELSE LET r == CalendarAttempt(x, x.d["selected_date"], x.d["selected_time"],
                                  calendar_service)
         IN IF r.cal = x.cal THEN [r EXCEPT !.exc = TRUE] ELSE r

_create_calendar_event(x, calendar_service) ==
    IF x.exc THEN x
    ELSE IF ~Has(x.d, "selected_date") \/ ~Has(x.d, "selected_time") THEN x
    ELSE CalendarAttempt(x, x.d["selected_date"], x.d["selected_time"], calendar_service)

\* A failed notification is sent once more
_notify_owner_Retries(x, owner) ==
    IF x.exc THEN x
    ELSE IF owner = "unset"
    THEN [x EXCEPT !.out = Append(@, Effect("notify_owner", <<>>, <<"skipped">>))]
    ELSE IF owner = "ok"
    THEN [x EXCEPT !.out = Append(@, Effect("notify_owner", <<>>, <<"sent">>))]
    ELSE [x EXCEPT !.out = Append(Append(@, Effect("notify_owner", <<>>, <<"failed">>)),
                                  Effect("notify_owner", <<>>, <<"failed">>))]

\* owner is "unset" (no OWNER_TELEGRAM_ID), "ok" or "failing" (bot.send_message
\* to the owner raises, which the function catches)
_notify_owner(x, owner) ==
    IF x.exc THEN x
    ELSE IF owner = "unset"
    THEN [x EXCEPT !.out = Append(@, Effect("notify_owner", <<>>, <<"skipped">>))]
    ELSE [x EXCEPT !.out = Append(@, Effect("notify_owner", <<>>,
                                <<IF owner = "ok" THEN "sent" ELSE "failed">>))]

\* The summary names every field, set or not
SummaryFields_AllFields(d) ==
    <<"cleaning_type", "property_type", "area_m2", "selected_date",
      "selected_time", "address">>

SummaryFields(d) ==
    SelectSeq(<<"cleaning_type", "property_type", "area_m2", "selected_date",
                "selected_time", "address">>, LAMBDA k : Has(d, k))

_complete_booking(x, calendar_service, owner) ==
    IF x.exc THEN x
    ELSE IF ~Has(x.d, "address")
    THEN show_menu(clear(Say(x, "address_not_saved")))
    ELSE LET x1 == Answer(x, "booking_confirmed", <<>>, SummaryFields(x.d))
             x2 == _create_calendar_event(x1, calendar_service)
             x3 == _notify_owner(x2, owner)
         IN clear(x3)

\* The length of the text is checked as it was typed
process_address_input_Untrimmed(x, text, calendar_service, owner) ==
    LET address == Strip(text)
    IN IF StrLen(text) < 5
       THEN Say(x, "address_too_short")
       ELSE LET x1 == update_data(x, [address |-> address, address_calendar |-> address])
                x2 == Say(x1, "address_saved")
            IN _complete_booking(x2, calendar_service, owner)

\* The address is not written to the draft before the booking is completed
process_address_input_NotStored(x, text, calendar_service, owner) ==
    LET address == Strip(text)
    IN IF StrLen(address) < 5
       THEN Say(x, "address_too_short")
       ELSE _complete_booking(Say(x, "address_saved"), calendar_service, owner)

process_address_input(x, text, calendar_service, owner) ==
    LET address == Strip(text)
    IN IF StrLen(address) < 5
       THEN Say(x, "address_too_short")
       ELSE LET x1 == update_data(x, [address |-> address, address_calendar |-> address])
                x2 == Say(x1, "address_saved")
            IN _complete_booking(x2, calendar_service, owner)

\* f"{v:.6f}" of a coordinate given in units of 1e-7 degree: the number of
\* millionths of a degree nearest to it (the coordinates of the model are
\* never half-way between two)
Format6(v) == IF v >= 0 THEN (v + 5) \div 10 ELSE -((-v + 5) \div 10)

\* Only the display address is stored
process_location_input_DisplayOnly(x, location, calendar_service, owner) ==
    LET address_display == <<"coordinates:", Format6(location[1]), Format6(location[2])>>
        x1 == update_data(x, [address |-> address_display,
                              location_latitude |-> location[1],
                              location_longitude |-> location[2]])
        x2 == Answer(x1, "location_received", <<>>, <<address_display>>)
    IN _complete_booking(x2, calendar_service, owner)

\* location is <<latitude, longitude>>
process_location_input(x, location, calendar_service, owner) ==
    LET latitude == location[1]
        longitude == location[2]
        address_display == <<"coordinates:", Format6(latitude), Format6(longitude)>>
        address_calendar == <<Format6(latitude), Format6(longitude)>>
        x1 == update_data(x, [address |-> address_display,
                              address_calendar |-> address_calendar,
                              location_latitude |-> latitude,
                              location_longitude |-> longitude])
        x2 == Answer(x1, "location_received", <<>>, <<address_display>>)
    IN _complete_booking(x2, calendar_service, owner)

location_message_handler(x, location, calendar_service, owner) ==
    IF x.st = "entering_address"
    THEN process_location_input(x, location, calendar_service, owner)
    ELSE Say(x, "share_location_later")

\* The area is stored before it is validated
AreaBody_StoresFirst(x, area) ==
    LET x0 == update_data(x, [area_m2 |-> area])
    IN IF area <= 0 THEN Say(x0, "area_must_be_positive")
       ELSE LET has_types == Has(x.d, "cleaning_type") /\ Has(x.d, "property_type")
            IN IF ~has_types
               THEN show_menu(clear(Say(x0, "data_not_saved")))
               ELSE IF x.d["cleaning_type"] \notin base_prices
                       \/ x.d["property_type"] \notin property_multipliers
               THEN [x0 EXCEPT !.exc = TRUE]
               ELSE Answer(x0, "price", get_book_cleaning_keyboard,
                           QuoteFor(x.d["cleaning_type"], x.d["property_type"], area))

\* The quote is made for the area the draft held when the text arrived
AreaBody_QuotesStoredArea(x, area) ==
    IF area <= 0 THEN Say(x, "area_must_be_positive")
    ELSE LET has_types == Has(x.d, "cleaning_type") /\ Has(x.d, "property_type")
             x1 == update_data(x, [area_m2 |-> area])
             quoted == IF Has(x.d, "area_m2") THEN x.d["area_m2"] ELSE area
         IN IF ~has_types
            THEN show_menu(clear(Say(x1, "data_not_saved")))
            ELSE IF x.d["cleaning_type"] \notin base_prices
                    \/ x.d["property_type"] \notin property_multipliers
            THEN [x1 EXCEPT !.exc = TRUE]
            ELSE LET x2 == Answer(x1, "price", get_book_cleaning_keyboard,
                                  QuoteFor(x.d["cleaning_type"], x.d["property_type"],
                                           quoted))
                 IN update_data(x2, [cleaning_type |-> x.d["cleaning_type"],
                                     property_type |-> x.d["property_type"],
                                     area_m2 |-> area])

\* The try block of process_area_input after float() succeeded
AreaBody(x, area) ==
    IF area <= 0 THEN Say(x, "area_must_be_positive")
    ELSE LET has_types == Has(x.d, "cleaning_type") /\ Has(x.d, "property_type")
             x1 == update_data(x, [area_m2 |-> area])
         IN IF ~has_types
            THEN show_menu(clear(Say(x1, "data_not_saved")))
            ELSE IF x.d["cleaning_type"] \notin base_prices
                    \/ x.d["property_type"] \notin property_multipliers
            THEN [x1 EXCEPT !.exc = TRUE]
            ELSE LET x2 == Answer(x1, "price", get_book_cleaning_keyboard,
                                  QuoteFor(x.d["cleaning_type"], x.d["property_type"], area))
                 IN update_data(x2, [cleaning_type |-> x.d["cleaning_type"],
                                     property_type |-> x.d["property_type"],
                                     area_m2 |-> area])

process_area_input(x, text) ==
    IF Float(text) = <<>>
    THEN Say(x, "enter_a_number")
    ELSE LET body == AreaBody(x, Float(text)[1])
         IN IF body.exc THEN show_menu(clear(Say(Caught(body), "error"))) ELSE body

\* A text outside the two input steps restarts the conversation
text_message_handler_Restarts(x, text, calendar_service, owner) ==
    IF IsCommand(text) THEN x
    ELSE IF x.st = "entering_area" THEN process_area_input(x, text)
    ELSE IF x.st = "entering_address"
         THEN process_address_input(x, text, calendar_service, owner)
    ELSE show_menu(clear(x))

text_message_handler(x, text, calendar_service, owner) ==
    IF IsCommand(text) THEN x
    ELSE IF x.st = "entering_area" THEN process_area_input(x, text)
    ELSE IF x.st = "entering_address"
         THEN process_address_input(x, text, calendar_service, owner)
    ELSE show_menu(x)

----------------------------------------------------------------------------
(* main.py: the entry point defines handlers of its own and registers those *)
(* with the dispatcher; the keyboards and the services are the shared ones. *)
(* The branches of its callback_handler that read as the functions of       *)
(* handlers/callbacks.py do are written with those.                         *)

main_show_menu(x) ==
    IF x.exc THEN x
    ELSE Caught(Answer(x, "menu", get_start_keyboard, <<>>))

main_start_command_handler(x) == main_show_menu(clear(x))

\* The try block of main.py's process_area_input after float() succeeded
main_AreaBody(x, area) ==
    IF area <= 0 THEN Say(x, "area_must_be_positive")
    ELSE LET x1 == update_data(x, [area_m2 |-> area])
         IN IF ~(Has(x1.d, "cleaning_type") /\ Has(x1.d, "property_type"))
            THEN main_show_menu(clear(Say(x1, "data_not_saved")))
            ELSE IF x1.d["cleaning_type"] \notin base_prices
                    \/ x1.d["property_type"] \notin property_multipliers
            THEN [x1 EXCEPT !.exc = TRUE]
            ELSE clear(Answer(x1, "price", get_book_cleaning_keyboard,
                              QuoteFor(x1.d["cleaning_type"], x1.d["property_type"], area)))

main_process_area_input(x, text) ==
    IF Float(text) = <<>>
    THEN Say(x, "enter_a_number")
    ELSE LET body == main_AreaBody(x, Float(text)[1])
         IN IF body.exc THEN main_show_menu(clear(Say(Caught(body), "error"))) ELSE body

\* The summary names all six fields, set or not; there is no calendar call
\* and no owner notification.
main_process_address_input(x, text) ==
    LET address == Strip(text)
    IN IF StrLen(address) < 5
       THEN Say(x, "address_too_short")
       ELSE LET x1 == update_data(x, [address |-> address])
                x2 == Answer(x1, "booking_confirmed", <<>>,
                             [i \in 1..6 |->
                                 LET k == <<"cleaning_type", "property_type", "area_m2",
                                            "selected_date", "selected_time", "address">>[i]
                                 IN IF Has(x1.d, k) THEN x1.d[k] ELSE NONE])
            IN clear(x2)

main_text_message_handler(x, text) ==
    IF IsCommand(text) THEN x
    ELSE IF x.st = "entering_area" THEN main_process_area_input(x, text)
    ELSE IF x.st = "entering_address" THEN main_process_address_input(x, text)
    ELSE main_show_menu(x)

\* main.py registers text_message_handler without a filter, so a shared
\* location reaches it as a message whose text is None
main_text_message_handler_location(x) ==
    IF x.st = "entering_area" THEN Say(x, "enter_area_as_number")
    ELSE IF x.st = "entering_address" THEN Say(x, "enter_address_as_text")
    ELSE main_show_menu(x)

main_Route(x, callback_data, calendar_service) ==
    IF callback_data = <<"calculate_price">> THEN _handle_calculate_price(x)
    ELSE IF StartsWith(callback_data, "cleaning_type")
         THEN _handle_cleaning_type_selection(x, callback_data)
    ELSE IF StartsWith(callback_data, "property_type")
         THEN _handle_property_type_selection(x, callback_data)
    ELSE IF callback_data = <<"book_cleaning">>
         THEN _handle_book_cleaning(x, calendar_service)
    ELSE IF StartsWith(callback_data, "select_date")
         THEN _handle_date_selection(x, callback_data, calendar_service)
    ELSE IF StartsWith(callback_data, "select_time")
         THEN LET time_str == callback_data[2]
                  x1 == update_data(x, [selected_time |-> time_str])
              IN IF ~Has(x1.d, "selected_date")
                 THEN clear(Say(x1, "date_not_saved"))
                 ELSE Answer(set_state(x1, "entering_address"), "enter_address",
                             <<>>, <<x1.d["selected_date"], time_str>>)
    ELSE IF callback_data = <<"no_slots_available">> THEN Say(x, "no_slots_on_date")
    ELSE Say(x, "unknown_action")

main_callback_handler(x, callback_data, calendar_service) ==
    LET body == main_Route(Say(x, "callback.answer"), callback_data, calendar_service)
    IN IF body.exc THEN clear(Say(Caught(body), "error")) ELSE body

----------------------------------------------------------------------------
(* The bot: one action per update, the whole handler in one step            *)

\* Bounds of the model
MaxBookings == 2
MaxFaultAt == 2

\* CALENDAR_TIMEZONE is Europe/Stockholm, UTC+2 on the dates of the model; the
\* host's local zone is the same, or UTC.
TimeZones == { [cal |-> 120, loc |-> 120], [cal |-> 120, loc |-> 0] }

CalendarServices == {"ok", "none", "failing", "raises"}
Owners == {"unset", "ok", "failing"}

\* The numbers of the Telegram calls of one handler run that raise
FaultPlans ==
    {{}} \cup {{k} : k \in 1..MaxFaultAt} \cup {{k, k + 1} : k \in 1..MaxFaultAt}

Callbacks ==
    { <<"calculate_price">>, <<"cleaning_type", "deep">>, <<"cleaning_type", "windows">>,
      <<"property_type", "apartment">>, <<"book_cleaning">>,
      <<"select_date", "2026-06-02">>, <<"select_date", "tomorrow">>,
      <<"select_time", "08", "00">>, <<"select_time", "10", "00">>,
      <<"no_slots_available">>, <<"no_available_days">>, <<"cancel">> }

Texts == {"60", "0", "abc", "  ab  ", "Main street 5", "/help"}

\* Shared locations, <<latitude, longitude>> in units of 1e-7 degree
Locations == { <<593293236, 180685814>>, <<-338688197, 1512092953>> }

NoUpdate == [conv |-> NONE, ev |-> NONE, input |-> <<>>, was |-> NONE, out |-> <<>>]
NoCall == [called |-> FALSE]
NoTasks == [m \in {} |-> NONE]

\* One state and one draft for all conversations
Commit_SharedKey(c, ev, input, x) ==
    /\ Len(x.cal) <= MaxBookings
    /\ fsm' = [b \in Conv |-> x.st]
    /\ data' = [b \in Conv |-> x.d]
    /\ calendar' = x.cal
    /\ last' = [conv |-> c, ev |-> ev, input |-> input,
                was |-> IF fsm[c] = NONE /\ data[c] = EmptyData THEN "idle" ELSE "active",
                out |-> x.out]
    /\ UNCHANGED <<tz, slotsCall, inflight>>

\* The handler's writes reach the storage under the conversation's own key
Commit(c, ev, input, x) ==
    /\ Len(x.cal) <= MaxBookings
    /\ fsm' = [fsm EXCEPT ![c] = x.st]
    /\ data' = [data EXCEPT ![c] = x.d]
    /\ calendar' = x.cal
    /\ last' = [conv |-> c, ev |-> ev, input |-> input,
                was |-> IF fsm[c] = NONE /\ data[c] = EmptyData THEN "idle" ELSE "active",
                out |-> x.out]
    /\ UNCHANGED <<tz, slotsCall, inflight>>

\* The collaborators' outcomes are drawn only where the handler meets them
ServicesFor(callback_data, services) ==
    IF callback_data[1] \in {"book_cleaning", "select_date"} THEN services ELSE {"ok"}

ServicesAt(c, services) == IF fsm[c] = "entering_address" THEN services ELSE {"ok"}
OwnersAt(c, owners) == IF fsm[c] = "entering_address" THEN owners ELSE {"unset"}

\* The /start command
Start(c, faults) ==
    /\ c \in Conv
    /\ Commit(c, "start", <<>>, start_command_handler(Run(c, faults)))

\* A press of an inline button
Callback(c, callback_data, faults, services) ==
    /\ c \in Conv
    /\ \E calendar_service \in ServicesFor(callback_data, services) :
          Commit(c, callback_data[1], callback_data,
                 callback_handler(Run(c, faults), callback_data, calendar_service))

\* A text message
TextMessage(c, text, faults, services, owners) ==
    \E calendar_service \in ServicesAt(c, services), owner \in OwnersAt(c, owners) :
        Commit(c, "text", <<text>>,
               text_message_handler(Run(c, faults), text, calendar_service, owner))

\* A shared location
LocationMessage(c, faults, services, owners) ==
    \E calendar_service \in ServicesAt(c, services), owner \in OwnersAt(c, owners),
       location \in Locations :
        Commit(c, "location", location,
               location_message_handler(Run(c, faults), location, calendar_service, owner))

Update(conversations, callbacks, texts, plans, services, owners) ==
    \E c \in conversations, faults \in plans :
        \/ Start(c, faults)
        \/ \E callback_data \in callbacks : Callback(c, callback_data, faults, services)
        \/ \E text \in texts : TextMessage(c, text, faults, services, owners)
        \/ LocationMessage(c, faults, services, owners)

HostInCalendarZone == [cal |-> 120, loc |-> 120]

Init ==
    /\ fsm = [c \in Conv |-> NONE]
    /\ data = [c \in Conv |-> EmptyData]
    /\ calendar = <<>>
    /\ tz = HostInCalendarZone
    /\ last = NoUpdate
    /\ slotsCall = NoCall
    /\ inflight = NoTasks

\* One conversation, every update, every outcome of the calendar and of the
\* owner notification; the Telegram calls for the user succeed.
Next == Update({"A"}, Callbacks, Texts, {{}}, CalendarServices, Owners)

Spec == Init /\ [][Next]_vars

\* One conversation, every update, Telegram calls that may raise; no
\* calendar credentials.
NextFaults == Update({"A"}, Callbacks, Texts, FaultPlans, {"none"}, {"unset", "ok"})

SpecFaults == Init /\ [][NextFaults]_vars

\* Two conversations booking at the same calendar.
BookingCallbacks ==
    { <<"book_cleaning">>, <<"select_date", "2026-06-02">>,
      <<"select_time", "08", "00">>, <<"select_time", "10", "00">>, <<"cancel">> }

BookingTexts == {"  ab  ", "Main street 5"}

NextTwo == Update(Conv, BookingCallbacks, BookingTexts, {{}}, {"ok"}, {"unset"})

SpecTwo == Init /\ [][NextTwo]_vars

\* One conversation on the booking path, with a press of a date button no
\* keyboard shows (a Saturday).
DateCallbacks ==
    { <<"book_cleaning">>, <<"select_date", "2026-06-02">>,
      <<"select_date", "2026-06-06">>, <<"select_date", "tomorrow">>,
      <<"select_time", "08", "00">>, <<"no_slots_available">>, <<"no_available_days">> }

NextDates == Update({"A"}, DateCallbacks, BookingTexts, {{}}, {"ok", "none"}, {"unset"})

SpecDates == Init /\ [][NextDates]_vars

\* The bot as main.py runs it: the handlers registered with the dispatcher
\* are main.py's own; a location share has no handler.
MainCallbacks ==
    { <<"calculate_price">>, <<"cleaning_type", "deep">>,
      <<"property_type", "apartment">>, <<"book_cleaning">>,
      <<"select_date", "2026-06-02">>, <<"select_time", "08", "00">>,
      <<"no_available_days">> }

MainStart(c, faults) ==
    /\ c \in Conv
    /\ Commit(c, "start", <<>>, main_start_command_handler(Run(c, faults)))

MainCallback(c, callback_data, faults, services) ==
    /\ c \in Conv
    /\ \E calendar_service \in ServicesFor(callback_data, services) :
          Commit(c, callback_data[1], callback_data,
                 main_callback_handler(Run(c, faults), callback_data, calendar_service))

MainTextMessage(c, text, faults) ==
    /\ c \in Conv
    /\ Commit(c, "text", <<text>>, main_text_message_handler(Run(c, faults), text))

NextMain ==
    \E c \in {"A"}, faults \in {{}} :
        \/ MainStart(c, faults)
        \/ \E callback_data \in MainCallbacks :
              MainCallback(c, callback_data, faults, {"ok", "none"})
        \/ \E text \in Texts : MainTextMessage(c, text, faults)

SpecMain == Init /\ [][NextMain]_vars

\* The two sets of handlers side by side: every update is handled by the
\* handlers of the handlers/ package for conversation A and by the handlers
\* main.py registers for conversation B, on the same calendar and with the
\* same outcomes of the calendar and of the owner's notification. last holds
\* the run of the package, slotsCall the effects of main.py's run.
BothTexts == {"60", "  ab  ", "Main street 5"}

CommitBoth(a, b, ev, input, xA, xB) ==
    /\ Len(xA.cal) <= MaxBookings
    /\ fsm' = [fsm EXCEPT ![a] = xA.st, ![b] = xB.st]
    /\ data' = [data EXCEPT ![a] = xA.d, ![b] = xB.d]
    /\ calendar' = xA.cal
    /\ last' = [conv |-> a, ev |-> ev, input |-> input,
                was |-> IF fsm[a] = NONE /\ data[a] = EmptyData THEN "idle" ELSE "active",
                out |-> xA.out]
    /\ slotsCall' = [called |-> TRUE, out |-> xB.out]
    /\ UNCHANGED <<tz, inflight>>

BothStart(a, b) ==
    /\ a # b
    /\ CommitBoth(a, b, "start", <<>>, start_command_handler(Run(a, {})),
                  main_start_command_handler(Run(b, {})))

BothCallback(a, b, callback_data, calendar_service) ==
    /\ a # b
    /\ CommitBoth(a, b, callback_data[1], callback_data,
                  callback_handler(Run(a, {}), callback_data, calendar_service),
                  main_callback_handler(Run(b, {}), callback_data, calendar_service))

BothTextMessage(a, b, text, calendar_service, owner) ==
    /\ a # b
    /\ CommitBoth(a, b, "text", <<text>>,
                  text_message_handler(Run(a, {}), text, calendar_service, owner),
                  main_text_message_handler(Run(b, {}), text))

BothLocationMessage(a, b, location, calendar_service, owner) ==
    /\ a # b
    /\ CommitBoth(a, b, "location", location,
                  location_message_handler(Run(a, {}), location, calendar_service, owner),
                  main_text_message_handler_location(Run(b, {})))

NextBoth ==
    \/ BothStart("A", "B")
    \/ \E callback_data \in MainCallbacks : BothCallback("A", "B", callback_data, "ok")
    \/ \E text \in BothTexts, owner \in {"unset", "ok"} :
          BothTextMessage("A", "B", text, "ok", owner)
    \/ \E location \in Locations, owner \in {"unset", "ok"} :
          BothLocationMessage("A", "B", location, "ok", owner)

SpecBoth == Init /\ [][NextBoth]_vars

----------------------------------------------------------------------------
(* The calendar service alone: reservations and other events are inserted, *)
(* and the availability of a date is computed from the calendar as it is   *)

SlotDates == {"2026-06-02", "2026-06-06"}       \* a Tuesday and a Saturday
ReservationDates == {"2026-06-02"}
ReservationTimes == {"08", "16"}

\* Events of other users of the calendar, in wall-clock minutes of
\* CALENDAR_TIMEZONE on 2026-06-02
ExternalEvents ==
    { <<Time(9, 0), Time(10, 0)>>, <<Time(10, 0), Time(12, 0)>>,
      <<Time(22, 30), Time(23, 30)>> }

WorkHours ==
    { <<CALENDAR_WORK_START, CALENDAR_WORK_END>>, <<Time(20, 0), Time(23, 0)>>,
      <<Time(8, 30), Time(11, 30)>> }
SlotIntervals == {1, CALENDAR_SLOT_INTERVAL_HOURS}

\* The insertion _create_calendar_event makes for a date and a time chosen
\* in the flow
InsertReservation(selected_date_str, selected_time) ==
    /\ Len(calendar) < MaxBookings
    /\ calendar' = CalendarAttempt(Run("A", {}), selected_date_str, selected_time, "ok").cal
    /\ slotsCall' = NoCall
    /\ UNCHANGED <<fsm, data, tz, last, inflight>>

\* Somebody else's event, which the freebusy query reports like any other
InsertExternal(selected_date_str, e) ==
    /\ Len(calendar) < MaxBookings
    /\ calendar' = Append(calendar, Event(Instant(FromIsoFormat(selected_date_str), e[1]),
                                          Instant(FromIsoFormat(selected_date_str), e[2]),
                                          "other"))
    /\ slotsCall' = NoCall
    /\ UNCHANGED <<fsm, data, tz, last, inflight>>

\* A call of generate_available_time_slots on the calendar as it is
GenerateSlots(selected_date_str, calendar_service, work, slot_interval_hours) ==
    /\ slotsCall' =
          [called |-> TRUE, date |-> selected_date_str, service |-> calendar_service,
           work_start |-> work[1], work_end |-> work[2],
           slot_interval_hours |-> slot_interval_hours,
           busy |-> get_busy_time_slots(calendar_service, FromIsoFormat(selected_date_str)),
           result |-> generate_available_time_slots(FromIsoFormat(selected_date_str),
                          calendar_service, work[1], work[2], slot_interval_hours)]
    /\ UNCHANGED <<fsm, data, calendar, tz, last, inflight>>

InitSlots ==
    /\ fsm = [c \in Conv |-> NONE]
    /\ data = [c \in Conv |-> EmptyData]
    /\ calendar = <<>>
    /\ tz \in TimeZones
    /\ last = NoUpdate
    /\ slotsCall = NoCall
    /\ inflight = NoTasks

NextSlots ==
    \/ \E selected_date_str \in ReservationDates, selected_time \in ReservationTimes :
          InsertReservation(selected_date_str, selected_time)
    \/ \E selected_date_str \in SlotDates, e \in ExternalEvents :
          InsertExternal(selected_date_str, e)
    \/ \E selected_date_str \in SlotDates, calendar_service \in {"ok", "none", "failing"},
          work \in WorkHours, slot_interval_hours \in SlotIntervals :
          GenerateSlots(selected_date_str, calendar_service, work, slot_interval_hours)

SpecSlots == InitSlots /\ [][NextSlots]_vars

\* The reservations of offered slots: a button of the time keyboard of a
\* stored date is pressed and an address is accepted, the calendar being as
\* it is
OfferDates == {"2026-06-02", "2026-06-03"}

\* The buttons a time keyboard of the date can show
SlotButtonsOf(selected_date_str) ==
    Elements(get_time_selection_keyboard(FromIsoFormat(selected_date_str), "none"))

OfferedButtons(selected_date_str, calendar_service) ==
    {b \in Elements(get_time_selection_keyboard(FromIsoFormat(selected_date_str),
                                                calendar_service)) : b[1] = "select_time"}

BookOffered(selected_date_str, calendar_service, callback_data) ==
    /\ Len(calendar) < MaxBookings
    /\ callback_data \in OfferedButtons(selected_date_str, calendar_service)
    /\ LET x0 == [Run("A", {}) EXCEPT !.st = "selecting_time",
                                      !.d = [selected_date |-> selected_date_str]]
           x1 == callback_handler(x0, callback_data, calendar_service)
           x2 == text_message_handler(x1, "Main street 5", calendar_service, "unset")
       IN calendar' = x2.cal
    /\ slotsCall' = [called |-> TRUE, date |-> selected_date_str, pressed |-> callback_data]
    /\ UNCHANGED <<fsm, data, tz, last, inflight>>

NextOffered ==
    \E selected_date_str \in OfferDates, calendar_service \in {"ok", "none"} :
        \E callback_data \in SlotButtonsOf(selected_date_str) :
            BookOffered(selected_date_str, calendar_service, callback_data)

SpecOffered == InitSlots /\ [][NextOffered]_vars

\* The date keyboard alone: other users' events close whole days, and the
\* keyboard is built on the calendar as it is. A block <<a, b>> is an event
\* from 00:00 of the date a to 23:59 of the date b in CALENDAR_TIMEZONE.
DayBlocks == { <<1, 1>>, <<2, 2>>, <<3, 4>>, <<1, 11>>, <<14, 17>>, <<1, 21>> }

InsertBlock(b) ==
    /\ Len(calendar) < MaxBookings
    /\ calendar' = Append(calendar, Event(Instant(b[1], Time(0, 0)),
                                          Instant(b[2], Time(23, 59)), "other"))
    /\ slotsCall' = NoCall
    /\ UNCHANGED <<fsm, data, tz, last, inflight>>

\* A call of get_date_selection_keyboard on the calendar as it is
BuildDateKeyboard(calendar_service) ==
    /\ slotsCall' = [called |-> TRUE, service |-> calendar_service,
                     keyboard |-> get_date_selection_keyboard(calendar_service)]
    /\ UNCHANGED <<fsm, data, calendar, tz, last, inflight>>

NextKeyboard ==
    \/ \E b \in DayBlocks : InsertBlock(b)
    \/ \E calendar_service \in {"ok", "none", "failing"} :
          BuildDateKeyboard(calendar_service)

SpecKeyboard == InitSlots /\ [][NextKeyboard]_vars

\* get_next_working_days alone, for every day of two weeks as date.today()
\* and every count up to MaxCount
MaxCount == 14
ReferenceDays == 0..13

WorkingDaysCall(today, count) ==
    /\ slotsCall' = [called |-> TRUE, today |-> today, count |-> count,
                     days |-> WorkingDaysFrom(today, count)]
    /\ UNCHANGED <<fsm, data, calendar, tz, last, inflight>>

NextWorkingDaysCalls ==
    \E today \in ReferenceDays, count \in 0..MaxCount : WorkingDaysCall(today, count)

SpecWorkingDays == Init /\ [][NextWorkingDaysCalls]_vars

\* calculate_cleaning_price alone. Areas are in hundredths of a m2: the
\* bounds of the tiers and their neighbours, areas whose amounts fall
\* half-way between two cents (64.01), and the floats 1e307 and inf, which
\* float() parses and which are above 0.
PricedAreas ==
    {Fin(v) : v \in {1, 2550, 4999, 5000, 5001, 6401, 7550, 10000, 10001, 12345,
                     15000, 15001, 20000, 31733}} \cup {Huge, Inf}

TieDirections == [p : BOOLEAN, f : BOOLEAN, d : BOOLEAN]

Quote(cleaning_type, property_type, area_m2, up) ==
    /\ slotsCall' = [called |-> TRUE, cleaning_type |-> cleaning_type,
                     property_type |-> property_type, area_m2 |-> area_m2,
                     price_info |-> calculate_cleaning_price(cleaning_type, property_type,
                                                             area_m2, up)]
    /\ UNCHANGED <<fsm, data, calendar, tz, last, inflight>>

NextPricing ==
    \E cleaning_type \in base_prices, property_type \in property_multipliers,
       area_m2 \in PricedAreas, up \in TieDirections :
        Quote(cleaning_type, property_type, area_m2, up)

SpecPricing == Init /\ [][NextPricing]_vars

\* One conversation on the quote path: every button of the two type
\* keyboards, and areas of each discount tier.
QuoteCallbacks ==
    {<<"calculate_price">>} \cup Elements(get_cleaning_type_keyboard)
        \cup Elements(get_property_type_keyboard)

QuoteTexts == {"60", "50", "151", "0", "abc"}

NextQuote == Update({"A"}, QuoteCallbacks, QuoteTexts, {{}}, {"ok"}, {"unset"})

SpecQuote == Init /\ [][NextQuote]_vars

\* One conversation on the booking path, with a select_time action whose
\* time is empty ("select_time:")
TimeCallbacks ==
    { <<"book_cleaning">>, <<"select_date", "2026-06-02">>,
      <<"select_time", "08", "00">>, <<"select_time", "">> }

NextTimes == Update({"A"}, TimeCallbacks, BookingTexts, {{}}, {"ok", "none"}, {"unset"})

SpecTimes == Init /\ [][NextTimes]_vars

----------------------------------------------------------------------------
(* Address messages handled as concurrent tasks. The dispatcher is created  *)
(* without events isolation and polling handles every update in a task of   *)
(* its own, so the handlers of two messages of one conversation interleave  *)
(* where they await Telegram (message.answer, bot.send_message); the calls  *)
(* of the FSM context on MemoryStorage and of the calendar service do not   *)
(* yield. A task is the handler run up to the call it awaits.               *)

MessageIds == {1, 2}

Task(pc, d, out) == [pc |-> pc, d |-> d, out |-> out]

Spawn(m, task) ==
    inflight' = [k \in DOMAIN inflight \cup {m} |-> IF k = m THEN task ELSE inflight[k]]

Awaits(m, pc) == m \in DOMAIN inflight /\ inflight[m].pc = pc

\* text_message_handler from the arrival of the message to its first send:
\* in entering_address an address of 5 characters or more is written to the
\* draft and "address saved" is sent; otherwise the one reply is sent and
\* the handler returns after it
ReceiveText(c, m, text) ==
    /\ m \notin DOMAIN inflight
    /\ ~IsCommand(text) /\ fsm[c] # "entering_area"
    /\ IF fsm[c] = "entering_address" /\ StrLen(Strip(text)) >= 5
       THEN /\ data' = [data EXCEPT ![c] =
                          update_data(Run(c, {}), [address |-> Strip(text),
                                                   address_calendar |-> Strip(text)]).d]
            /\ Spawn(m, Task("address_saved", EmptyData,
                             <<Effect("address_saved", <<>>, <<>>)>>))
       ELSE /\ data' = data
            /\ Spawn(m, Task("done", EmptyData,
                             <<Effect(IF fsm[c] = "entering_address"
                                      THEN "address_too_short" ELSE "menu", <<>>, <<>>)>>))
    /\ UNCHANGED <<fsm, calendar, tz, last, slotsCall>>

\* _complete_booking from get_data to the send of the summary (or of the
\* failure text when the draft holds no address)
CompleteBooking(c, m) ==
    /\ Awaits(m, "address_saved")
    /\ LET d == data[c]
           msg == IF Has(d, "address") THEN "booking_confirmed" ELSE "address_not_saved"
       IN inflight' = [inflight EXCEPT ![m] =
              Task(msg, d, Append(@.out, Effect(msg, <<>>,
                      IF Has(d, "address") THEN SummaryFields(d) ELSE <<>>)))]
    /\ UNCHANGED <<fsm, data, calendar, tz, last, slotsCall>>

\* After the failure text: state.clear(), then the menu, the last send
DiscardBooking(c, m) ==
    /\ Awaits(m, "address_not_saved")
    /\ fsm' = [fsm EXCEPT ![c] = NONE]
    /\ data' = [data EXCEPT ![c] = EmptyData]
    /\ inflight' = [inflight EXCEPT ![m] =
          Task("done", @.d, Append(@.out, Effect("menu", get_start_keyboard, <<>>)))]
    /\ UNCHANGED <<calendar, tz, last, slotsCall>>

\* After the summary: _create_calendar_event with the date and the time
\* get_data returned, then _notify_owner, which sends when an owner is
\* configured; without one state.clear() follows at once
SubmitBooking(c, m, calendar_service, owner) ==
    /\ Awaits(m, "booking_confirmed")
    /\ LET x == [Run(c, {}) EXCEPT !.d = inflight[m].d]
           r == _notify_owner(_create_calendar_event(x, calendar_service), owner)
       IN /\ Len(r.cal) <= MaxBookings
          /\ calendar' = r.cal
          /\ inflight' = [inflight EXCEPT ![m] =
                Task(IF owner = "unset" THEN "done" ELSE "notify_owner", @.d,
                     @.out \o r.out)]
          /\ fsm' = IF owner = "unset" THEN [fsm EXCEPT ![c] = NONE] ELSE fsm
          /\ data' = IF owner = "unset" THEN [data EXCEPT ![c] = EmptyData] ELSE data
    /\ UNCHANGED <<tz, last, slotsCall>>

\* After the owner's notification: state.clear()
FinishBooking(c, m) ==
    /\ Awaits(m, "notify_owner")
    /\ fsm' = [fsm EXCEPT ![c] = NONE]
    /\ data' = [data EXCEPT ![c] = EmptyData]
    /\ inflight' = [inflight EXCEPT ![m] = Task("done", @.d, @.out)]
    /\ UNCHANGED <<calendar, tz, last, slotsCall>>

\* A button press, handled whole, before the first message arrives
PressBefore(c, callback_data) ==
    /\ inflight = NoTasks
    /\ Callback(c, callback_data, {}, {"ok"})

\* One conversation books a slot and sends up to two texts at the address
\* step, the second possibly before the handler of the first has finished.
NextTasks ==
    \/ \E callback_data \in BookingCallbacks : PressBefore("A", callback_data)
    \/ \E m \in MessageIds, text \in BookingTexts : ReceiveText("A", m, text)
    \/ \E m \in MessageIds : CompleteBooking("A", m)
    \/ \E m \in MessageIds : DiscardBooking("A", m)
    \/ \E m \in MessageIds, owner \in {"unset", "ok"} : SubmitBooking("A", m, "ok", owner)
    \/ \E m \in MessageIds : FinishBooking("A", m)

SpecTasks == Init /\ [][NextTasks]_vars

----------------------------------------------------------------------------
(* Properties                                                              *)

Handled == last.conv \in Conv
Sent(msg) == \E i \in 1..Len(last.out) : last.out[i].msg = msg

\* The reservations of the flow in the calendar
Reservations == {i \in 1..Len(calendar) : calendar[i].by = "flow"}

\* C1: no two reservations the flow has inserted into the calendar occupy
\* overlapping intervals [start, start + duration), whatever the sequence
\* and interleaving of the conversations' events.
C1_NoOverlappingReservations ==
    \A i, j \in Reservations :
        i < j => ~(calendar[i].start < calendar[j].end
                   /\ calendar[j].start < calendar[i].end)

\* The slots generate_available_time_slots offers for a date under the
\* configuration of config.py, the calendar being reachable
AvailableSlots(date_obj) ==
    Elements(generate_available_time_slots(date_obj, "ok", CALENDAR_WORK_START,
                 CALENDAR_WORK_END, CALENDAR_SLOT_INTERVAL_HOURS).slots)

\* C2: when a select_time event has been accepted (the time is stored and
\* the state is entering_address), the stored time is one of the slots
\* available for the stored date.
C2_TimeAcceptedOnlyIfAvailable ==
    (Handled /\ last.ev = "select_time" /\ fsm[last.conv] = "entering_address"
     /\ Has(data[last.conv], "selected_time"))
    => Time(IntOf(data[last.conv]["selected_time"]), 0)
         \in AvailableSlots(FromIsoFormat(data[last.conv]["selected_date"]))

\* The date and the wall-clock time, in CALENDAR_TIMEZONE, an event starts at
EventDate(e) == (e.start + tz.cal) \div MinutesPerDay
EventTime(e) == (e.start + tz.cal) % MinutesPerDay

\* C3: a slot list computed for a date from the calendar's busy intervals
\* contains the start time of no reservation inserted for that date.
C3_ReservedSlotExcluded ==
    (slotsCall.called /\ slotsCall.service = "ok")
    => \A i \in Reservations :
          EventDate(calendar[i]) = FromIsoFormat(slotsCall.date)
          => EventTime(calendar[i]) \notin Elements(slotsCall.result.slots)

\* The overlap rule: [slot, slot + interval) meets [busy_start, busy_end)
HalfOpenOverlap(slot, slot_interval_hours, busy) ==
    slot < busy[2] /\ busy[1] < slot + slot_interval_hours * 60

\* C4: on a weekday generate_available_time_slots returns the candidate
\* slots, in order, less exactly those whose half-open interval meets a busy
\* interval; a busy interval that only touches the slot's interval does not
\* exclude it.
C4_ExcludedExactlyWhenOverlapping ==
    (slotsCall.called /\ Weekday(FromIsoFormat(slotsCall.date)) < 5)
    => /\ ~slotsCall.result.raised
       /\ slotsCall.result.slots =
             SelectSeq(AllSlots(slotsCall.work_start, slotsCall.work_end,
                                slotsCall.slot_interval_hours),
                       LAMBDA slot : \A i \in 1..Len(slotsCall.busy) :
                           ~HalfOpenOverlap(slot, slotsCall.slot_interval_hours,
                                            slotsCall.busy[i]))

\* The steps of the flow in order, and the draft field each step writes
Steps == <<"selecting_cleaning_type", "selecting_property_type", "entering_area",
           "selecting_date", "selecting_time", "entering_address">>
StepFields == <<"cleaning_type", "property_type", "area_m2", "selected_date",
                "selected_time", "address">>
Rank(step) == CHOOSE i \in 1..Len(Steps) : Steps[i] = step
SameField(d1, d2, k) == /\ Has(d1, k) <=> Has(d2, k)
                        /\ Has(d1, k) => d1[k] = d2[k]

\* C5: an event that finds a conversation at a step and leaves it at a step
\* does not move it to an earlier step, and changes no field written by a
\* step before the one it found the conversation at.
C5_ForwardOnly ==
    [][\A c \in Conv :
          (fsm[c] # NONE /\ fsm'[c] # NONE)
          => /\ Rank(fsm'[c]) >= Rank(fsm[c])
             /\ \A i \in 1..(Rank(fsm[c]) - 1) :
                   SameField(data[c], data'[c], StepFields[i])]_vars

Idle(c) == fsm[c] = NONE /\ data[c] = EmptyData

\* C6: after the start command the conversation is in no state and its draft
\* is empty, whatever they were and whether or not the menu could be sent.
C6_StartResets ==
    (Handled /\ last.ev = "start") => Idle(last.conv)

\* The start command was handled in a conversation with a state or a draft,
\* and the menu could not be sent.
C6_Witness ==
    /\ Handled /\ last.ev = "start" /\ last.was = "active"
    /\ Sent("TelegramError")
    /\ Idle(last.conv)

\* A step of one of the flow's transitions failed: an except branch reported
\* an error, or a message of the flow could not be sent (the menu and the
\* reply to a stray location belong to no transition).
TransitionFailed ==
    \/ Sent("error")
    \/ \E i \in 1..Len(last.out) :
          /\ last.out[i].msg = "TelegramError"
          /\ last.out[i].arg[1] \notin {"menu", "share_location_later"}

\* C7: an update during which a step of a transition failed leaves the
\* conversation in no state with an empty draft.
C7_FailureResets ==
    (Handled /\ TransitionFailed) => Idle(last.conv)

\* The update handled last accepted an address (typed, or a location)
AddressAccepted ==
    /\ Handled /\ last.ev \in {"text", "location"}
    /\ Sent("address_saved") \/ Sent("location_received")

Outcome(msg, r) ==
    \E i \in 1..Len(last.out) :
        /\ last.out[i].msg = msg
        /\ Len(last.out[i].arg) >= 1 /\ last.out[i].arg[1] = r

\* C8: once an address is accepted the confirmation is sent, no failure
\* message is, and the conversation ends in no state with an empty draft,
\* whatever the calendar submission and the owner notification did.
C8_ConfirmedWhateverCollaborators ==
    AddressAccepted
    => /\ Sent("booking_confirmed")
       /\ ~Sent("error") /\ ~Sent("address_not_saved")
       /\ Idle(last.conv)

\* An address was accepted, the calendar submission raised and the owner
\* notification failed.
C8_Witness ==
    /\ AddressAccepted
    /\ Outcome("calendar", "raised") /\ Outcome("notify_owner", "failed")
    /\ Sent("booking_confirmed") /\ Idle(last.conv)

Places(msg) == {i \in 1..Len(last.out) : last.out[i].msg = msg}

\* The draft fields the confirmation of the update handled last shows
Confirmed == UNION {Elements(last.out[i].arg) : i \in Places("booking_confirmed")}

\* C9: an accepted address makes one calendar submission when date and time
\* are set (none otherwise) and one pass through the owner notification,
\* neither repeated, the notification whatever the submission did, and the
\* draft is cleared once, after both.
C9_OneAttemptEach ==
    AddressAccepted
    => /\ Cardinality(Places("calendar")) =
             IF {"selected_date", "selected_time"} \subseteq Confirmed THEN 1 ELSE 0
       /\ Cardinality(Places("notify_owner")) = 1
       /\ Cardinality(Places("state.clear")) = 1
       /\ \A i \in Places("calendar") \cup Places("notify_owner"),
             j \in Places("state.clear") : i < j

\* An address was accepted, the calendar gave no event id and the owner was
\* notified all the same.
C9_Witness ==
    /\ AddressAccepted
    /\ Outcome("calendar", "no_event_id") /\ Outcome("notify_owner", "sent")
    /\ Idle(last.conv)

Handles(c, ev, st) == last'.conv = c /\ last'.ev = ev /\ fsm[c] = st

\* The conversation's state and draft are as before the step
Untouched(c) == fsm'[c] = fsm[c] /\ data'[c] = data[c]

\* The messages of the step, in order
Messages == [i \in 1..Len(last'.out) |-> last'.out[i].msg]

\* A text (not a command) float() does not parse, or whose value is not
\* above 0
NotAnArea(text) == ~IsCommand(text) /\ (Float(text) = <<>> \/ Float(text)[1] <= 0)

C12_ShortAddressRePrompts ==
    [][\A c \in Conv :
          (/\ Handles(c, "text", "entering_address")
           /\ ~IsCommand(last'.input[1])
           /\ StrLen(Strip(last'.input[1])) < 5)
          => /\ Untouched(c)
             /\ fsm'[c] = "entering_address"
             /\ ~Has(data'[c], "address")
             /\ Messages = <<"address_too_short">>
             /\ calendar' = calendar]_vars

\* A text of six characters, two without its blanks, was refused at the
\* address step of a conversation holding a date and a time.
C12_Witness ==
    /\ Handled /\ last.ev = "text" /\ last.input = <<"  ab  ">>
    /\ fsm[last.conv] = "entering_address"
    /\ Has(data[last.conv], "selected_date") /\ Has(data[last.conv], "selected_time")
    /\ ~Has(data[last.conv], "address")
    /\ last.out = <<Effect("address_too_short", <<>>, <<>>)>>

\* The days a date keyboard can show: the working days it searches
OfferableDays == Elements(get_next_working_days(SearchDays))

\* C13: when a select_date press has been accepted (the date is stored and
\* the state is selecting_time), the date is one a date keyboard can have
\* offered; and a stored date is always a working day after today.
C13_DateAcceptedOnlyIfOffered ==
    /\ (Handled /\ last.ev = "select_date" /\ fsm[last.conv] = "selecting_time")
       => /\ IsIsoDate(last.input[2])
          /\ FromIsoFormat(last.input[2]) \in OfferableDays
    /\ \A c \in Conv :
          Has(data[c], "selected_date")
          => /\ FromIsoFormat(data[c]["selected_date"]) > Today
             /\ Weekday(FromIsoFormat(data[c]["selected_date"])) < 5

\* The callback data callback_handler has a branch for
KnownAction(callback_data) ==
    \/ callback_data \in { <<"calculate_price">>, <<"book_cleaning">>,
                           <<"no_slots_available">>, <<"no_available_days">> }
    \/ \E prefix \in {"cleaning_type", "property_type", "select_date", "select_time"} :
          StartsWith(callback_data, prefix)

\* C14: a press of a button with an unknown action, in any state, and a
\* text received in a state other than entering_area and entering_address,
\* change neither the state, nor the draft, nor the calendar; the first is
\* answered "unknown action", the second with the menu.
C14_UnexpectedEventChangesNothing ==
    [][\A c \in Conv :
          /\ (/\ last'.conv = c /\ last'.ev \notin {"start", "text", "location"}
              /\ ~KnownAction(last'.input))
             => /\ Untouched(c) /\ calendar' = calendar
                /\ Messages = <<"callback.answer", "unknown_action">>
          /\ (/\ last'.conv = c /\ last'.ev = "text"
              /\ fsm[c] \notin {"entering_area", "entering_address"}
              /\ ~IsCommand(last'.input[1]))
             => /\ Untouched(c) /\ calendar' = calendar
                /\ Messages = <<"menu">>]_vars

\* A text arrived at the time step of a conversation holding a date: the
\* menu was shown and the conversation is still at the time step.
C14_Witness ==
    /\ Handled /\ last.ev = "text" /\ last.input = <<"Main street 5">>
    /\ fsm[last.conv] = "selecting_time"
    /\ Has(data[last.conv], "selected_date")
    /\ Sent("menu")

\* A text (not a command) that float() parses to a value above 0
IsArea(text) == ~IsCommand(text) /\ Float(text) # <<>> /\ Float(text)[1] > 0

\* The step discards the draft, sends the failure text and shows the menu
DiscardsWith(c, failure) ==
    /\ fsm'[c] = NONE /\ data'[c] = EmptyData
    /\ failure \in Elements(Messages)
    /\ "menu" \in Elements(Messages)

\* C15: a select_time press that finds no date stored, and an area typed at
\* the area step that finds the cleaning type or the property type missing,
\* discard the draft, leave the conversation in no state, send the failure
\* text and show the entry menu again.
C15_MissingFieldRestarts ==
    [][\A c \in Conv :
          /\ (/\ last'.conv = c /\ last'.ev = "select_time"
              /\ ~Has(data[c], "selected_date"))
             => DiscardsWith(c, "date_not_saved")
          /\ (/\ Handles(c, "text", "entering_area") /\ IsArea(last'.input[1])
              /\ ~(Has(data[c], "cleaning_type") /\ Has(data[c], "property_type")))
             => DiscardsWith(c, "data_not_saved")]_vars

\* The slot buttons a time keyboard can show under the configuration
SlotButtons ==
    {b \in Elements(get_time_selection_keyboard(Today + 1, "none")) : b[1] = "select_time"}

\* The hour and the minute of a select_time:<HH:MM> action
ButtonTime(b) == Time(IntOf(b[2]), IntOf(b[3]))

\* The reservation the step has added to the calendar
Added == calendar'[Len(calendar')]

\* C16: the draft keeps of a pressed slot button a time that is the slot's
\* hour and minute, and the reservation submitted for an accepted address
\* starts, in the calendar's zone, on the stored date at the stored time and
\* ends the cleaning duration later.
C16_ReservationAtPressedSlot ==
    [][\A c \in Conv :
          /\ (/\ last'.conv = c /\ last'.ev = "select_time"
              /\ fsm'[c] = "entering_address" /\ last'.input \in SlotButtons)
             => Time(IntOf(data'[c]["selected_time"]), 0) = ButtonTime(last'.input)
          /\ (/\ last'.conv = c /\ last'.ev \in {"text", "location"}
              /\ Len(calendar') = Len(calendar) + 1)
             => /\ EventDate(Added) = FromIsoFormat(data[c]["selected_date"])
                /\ EventTime(Added) = Time(IntOf(data[c]["selected_time"]), 0)
                /\ Added.end = Added.start + CALENDAR_CLEANING_DURATION_HOURS * 60]_vars

\* The slot 10:00 of 2026-06-02 was pressed and an address accepted: the
\* calendar's last event is the reservation 10:00-12:00 of that day.
C16_Witness ==
    /\ AddressAccepted /\ Outcome("calendar", "created")
    /\ <<"select_time", "10", "00">> \in SlotButtons
    /\ EventDate(calendar[Len(calendar)]) = FromIsoFormat("2026-06-02")
    /\ EventTime(calendar[Len(calendar)]) = Time(10, 0)
    /\ calendar[Len(calendar)].by = "flow"

----------------------------------------------------------------------------
\* The three values of a quote
QuoteFields == {"cleaning_type", "property_type", "area_m2"}

\* C17: on the quote path, once a valid area is entered and the price is
\* shown, the draft is not cleared: service type, property type and area are
\* still set (so that the booking that follows carries them).
C17_QuoteKeepsDraft ==
    (Handled /\ last.ev = "text" /\ Sent("price"))
        => QuoteFields \subseteq DOMAIN data[last.conv]

\* The fields a confirmation can show, and those the confirmation of the
\* step shows
SummaryKeys ==
    {"cleaning_type", "property_type", "area_m2", "selected_date", "selected_time",
     "address"}

SummaryShown ==
    UNION {Elements(last'.out[i].arg) :
              i \in {j \in 1..Len(last'.out) : last'.out[j].msg = "booking_confirmed"}}

\* C18: book_cleaning pressed from Idle moves the conversation straight to
\* SelectingDate with service type, property type and area unset (when the
\* date keyboard could be built and sent), and an address accepted on that
\* path is still confirmed, the summary listing exactly the draft fields
\* that are set.
C18_BookDirectly ==
    [][/\ (Handles("A", "book_cleaning", NONE) /\ data["A"] = EmptyData
             /\ "error" \notin Elements(Messages))
            => (fsm'["A"] = "selecting_date" /\ data'["A"] = EmptyData)
       /\ (/\ last'.conv = "A" /\ last'.ev \in {"text", "location"}
           /\ fsm["A"] = "entering_address"
           /\ QuoteFields \cap DOMAIN data["A"] = {}
           /\ Elements(Messages) \cap {"address_saved", "location_received"} # {})
            => /\ "booking_confirmed" \in Elements(Messages)
               /\ SummaryShown = (DOMAIN data["A"] \cap SummaryKeys) \cup {"address"}
               /\ SummaryShown \cap QuoteFields = {}
      ]_vars

\* A booking made directly was confirmed with date, time and address only.
C18_Witness ==
    /\ Handled /\ last.ev = "text" /\ Sent("booking_confirmed")
    /\ Confirmed = {"selected_date", "selected_time", "address"}

----------------------------------------------------------------------------
\* The searched days for which generate_available_time_slots returns a
\* non-empty list on the calendar as it is, and the days a keyboard offers
SearchedDays == Elements(get_next_working_days(SearchDays))

DaysWithSlots(calendar_service) ==
    {d \in SearchedDays :
        generate_available_time_slots(d, calendar_service, CALENDAR_WORK_START,
            CALENDAR_WORK_END, CALENDAR_SLOT_INTERVAL_HOURS).slots # <<>>}

OfferedDay(kb, i) == FromIsoFormat(kb[i][2])

\* C19: the date keyboard offers at most 5 days, in increasing date order,
\* each a working day of the searched horizon that had an available slot when
\* the keyboard was built, and they are the earliest such days; it is the
\* no_available_days sentinel alone exactly when no searched day had a slot.
C19_DateKeyboard ==
    slotsCall.called =>
        LET kb == slotsCall.keyboard
            days == DaysWithSlots(slotsCall.service)
            offered == {OfferedDay(kb, i) : i \in 1..Len(kb)}
        IN /\ (kb = << <<"no_available_days">> >>) <=> (days = {})
           /\ days # {} =>
                /\ Len(kb) <= TargetDays
                /\ \A i \in 1..Len(kb) :
                      /\ kb[i][1] = "select_date" /\ Len(kb[i]) = 2 /\ IsIsoDate(kb[i][2])
                      /\ OfferedDay(kb, i) \in days
                      /\ Weekday(OfferedDay(kb, i)) < 5 /\ OfferedDay(kb, i) > Today
                /\ \A i, j \in 1..Len(kb) : i < j => OfferedDay(kb, i) < OfferedDay(kb, j)
                /\ \A d \in days \ offered :
                      Len(kb) = TargetDays /\ \A o \in offered : o < d

\* A keyboard of five days was built while the first working day was
\* closed: the days offered are the five after it.
C19_Witness ==
    /\ slotsCall.called /\ slotsCall.service = "ok"
    /\ Len(slotsCall.keyboard) = TargetDays
    /\ get_next_working_days(1)[1] \notin DaysWithSlots("ok")
    /\ Cardinality(DaysWithSlots("ok")) > TargetDays

\* Every searched day was closed and the keyboard is the sentinel.
C19_SentinelReached ==
    /\ slotsCall.called /\ DaysWithSlots(slotsCall.service) = {}
    /\ slotsCall.keyboard = << <<"no_available_days">> >>

----------------------------------------------------------------------------
\* C20: pressing the no_available_days sentinel in SelectingDate is terminal:
\* the informational message is sent, the draft is discarded and the
\* conversation is no longer in SelectingDate.
C20_SentinelIsTerminal ==
    [][Handles("A", "no_available_days", "selecting_date")
          => /\ "no_available_days" \in Elements(Messages)
             /\ data'["A"] = EmptyData
             /\ fsm'["A"] # "selecting_date"
      ]_vars

----------------------------------------------------------------------------
\* C21: after the no_slots_available sentinel is pressed in selecting_time
\* for a stored date with no free slot, the conversation is back in
\* selecting_date or reset to Idle with the draft discarded; it does not
\* remain in selecting_time.
C21_NoSlotsLeavesTimeStep ==
    [][(/\ Handles("A", "no_slots_available", "selecting_time")
        /\ Has(data["A"], "selected_date")
        /\ AvailableSlots(FromIsoFormat(data["A"]["selected_date"])) = {})
          => \/ fsm'["A"] = "selecting_date"
             \/ (fsm'["A"] = NONE /\ data'["A"] = EmptyData)
      ]_vars

----------------------------------------------------------------------------
\* n millionths of a degree is the value nearest to v tenths of a millionth
Nearest6(v, n) == 10 * n - v \in -4..4

\* The coordinates pair p renders the shared location
RendersLocation(p) ==
    /\ Len(p) = 2
    /\ Nearest6(last'.input[1], p[1]) /\ Nearest6(last'.input[2], p[2])

\* C22: a location shared in entering_address is always accepted: the
\* display address (shown back to the user) and the calendar address (the
\* location of the submitted event) are made from the coordinates with six
\* decimals, and the booking is finalized (confirmation with the address,
\* conversation ended); a location shared in any other state changes neither
\* the state nor the draft.
C22_LocationAccepted ==
    [][/\ Handles("A", "location", "entering_address")
            => /\ \E i \in 1..Len(last'.out) :
                     /\ last'.out[i].msg = "location_received"
                     /\ last'.out[i].arg[1][1] = "coordinates:"
                     /\ RendersLocation(SubSeq(last'.out[i].arg[1], 2, 3))
               /\ \A i \in 1..Len(last'.out) :
                     (last'.out[i].msg = "calendar" /\ Len(last'.out[i].arg) = 2)
                        => RendersLocation(last'.out[i].arg[2])
               /\ "booking_confirmed" \in Elements(Messages)
               /\ "address" \in SummaryShown
               /\ fsm'["A"] = NONE /\ data'["A"] = EmptyData
       /\ (last'.conv = "A" /\ last'.ev = "location" /\ fsm["A"] # "entering_address")
            => Untouched("A")
      ]_vars

\* A location was shared in entering_address and the event was created.
C22_Witness ==
    /\ Handled /\ last.ev = "location" /\ Sent("location_received")
    /\ Outcome("calendar", "created") /\ Sent("booking_confirmed")
    /\ last.input[1] < 0

----------------------------------------------------------------------------
\* C23: the booking is always completed with the address set: no update ever
\* takes _complete_booking's address-missing branch; and that branch, run on
\* the draft of any conversation that has no address, ends with no state, an
\* empty draft, the failure text and the menu, and no calendar submission.
C23_AddressAlwaysSet ==
    /\ ~Sent("address_not_saved")
    /\ \A c \in Conv, calendar_service \in CalendarServices, owner \in Owners :
          ~Has(data[c], "address")
          => LET r == _complete_booking(Run(c, {}), calendar_service, owner)
             IN /\ r.st = NONE /\ r.d = EmptyData /\ r.cal = calendar
                /\ [i \in 1..Len(r.out) |-> r.out[i].msg]
                      = <<"address_not_saved", "state.clear", "menu">>

\* A typed address was accepted and the booking completed with it, the
\* owner being notified.
C23_Witness ==
    /\ Handled /\ last.ev = "text" /\ Sent("address_saved")
    /\ "address" \in Confirmed /\ Outcome("notify_owner", "sent")
    /\ ~Sent("address_not_saved")

----------------------------------------------------------------------------
\* C24: in every reachable state a draft's service type is unset or one of
\* maintenance, deep, post_renovation, and its property type is unset or one
\* of apartment, house (an action naming any other value is not stored).
C24_TypesWithinEnums ==
    \A c \in Conv :
        /\ Has(data[c], "cleaning_type")
              => data[c]["cleaning_type"] \in {"maintenance", "deep", "post_renovation"}
        /\ Has(data[c], "property_type")
              => data[c]["property_type"] \in {"apartment", "house"}

----------------------------------------------------------------------------
\* The date of a direct call, and the times work_start + k * interval that
\* are before work_end
CallDate == FromIsoFormat(slotsCall.date)

Candidates(work_start, work_end, slot_interval_hours) ==
    {t \in work_start..(work_end - 1) : (t - work_start) % (slot_interval_hours * 60) = 0}

Ascending(slots) == \A i, j \in 1..Len(slots) : i < j => slots[i] < slots[j]

FullList(slots) ==
    /\ Ascending(slots)
    /\ Elements(slots) = Candidates(slotsCall.work_start, slotsCall.work_end,
                                    slotsCall.slot_interval_hours)

\* C25: when there is no calendar service object, or the busy-interval query
\* fails, generate_available_time_slots does not fail: for a weekday it
\* returns the full candidate list, as if there were no busy interval.
C25_UnavailableCalendarGivesAllSlots ==
    (slotsCall.called /\ slotsCall.service \in {"none", "failing"} /\ Weekday(CallDate) < 5)
        => /\ ~slotsCall.result.raised
           /\ FullList(slotsCall.result.slots)

\* The busy-interval query failed on a day on which the calendar, had it
\* answered, would have closed a slot.
C25_Witness ==
    /\ slotsCall.called /\ slotsCall.service = "failing" /\ Weekday(CallDate) < 5
    /\ slotsCall.result.slots # <<>>
    /\ generate_available_time_slots(CallDate, "ok", slotsCall.work_start,
           slotsCall.work_end, slotsCall.slot_interval_hours) # Queried(slotsCall.result)

\* C26: for a Saturday or a Sunday generate_available_time_slots returns the
\* empty list whatever the busy intervals, the working hours and the slot
\* interval are, and without querying the calendar.
C26_WeekendEmpty ==
    (slotsCall.called /\ Weekday(CallDate) >= 5)
        => /\ ~slotsCall.result.raised /\ slotsCall.result.slots = <<>>
           /\ ~slotsCall.result.queried

\* The slots of a Saturday were asked for, with a calendar service, while
\* the calendar held an event on that day.
C26_Witness ==
    /\ slotsCall.called /\ Weekday(CallDate) = 5 /\ slotsCall.service = "ok"
    /\ BusyPeriods(CallDate) # <<>>
    /\ slotsCall.result.slots = <<>>

\* C27: for a weekday with no busy interval generate_available_time_slots
\* returns exactly the times work_start, work_start + interval, ... that are
\* strictly before work_end, ascending and without duplicates; 08:00-18:00
\* with an interval of 2 hours gives 08:00, 10:00, 12:00, 14:00, 16:00.
C27_CandidatesWhenNothingBusy ==
    /\ (slotsCall.called /\ Weekday(CallDate) < 5 /\ slotsCall.busy = <<>>)
          => /\ ~slotsCall.result.raised
             /\ FullList(slotsCall.result.slots)
    /\ (/\ slotsCall.called /\ Weekday(CallDate) < 5 /\ slotsCall.busy = <<>>
        /\ slotsCall.work_start = Time(8, 0) /\ slotsCall.work_end = Time(18, 0)
        /\ slotsCall.slot_interval_hours = 2)
          => slotsCall.result.slots
                = <<Time(8, 0), Time(10, 0), Time(12, 0), Time(14, 0), Time(16, 0)>>

\* The slots of a weekday were asked for with a calendar service and a
\* working day from 08:30, no event falling on the day.
C27_Witness ==
    /\ slotsCall.called /\ Weekday(CallDate) < 5 /\ slotsCall.service = "ok"
    /\ slotsCall.busy = <<>> /\ slotsCall.work_start = Time(8, 30)
    /\ Len(slotsCall.result.slots) >= 2

----------------------------------------------------------------------------
\* C28: for every reference day and every count >= 0, get_next_working_days
\* returns exactly count dates, the first count Monday-to-Friday dates
\* strictly after the reference day, in strictly increasing order, no
\* Saturday or Sunday among them.
C28_NextWorkingDays ==
    slotsCall.called =>
        LET days == slotsCall.days
        IN /\ Len(days) = slotsCall.count
           /\ \A i \in 1..Len(days) : days[i] > slotsCall.today /\ Weekday(days[i]) \in 0..4
           /\ \A i, j \in 1..Len(days) : i < j => days[i] < days[j]
           /\ \A i \in 1..Len(days) :
                 \A d \in (slotsCall.today + 1)..days[i] :
                     Weekday(d) \in 0..4 => d \in Elements(days)

\* Five days were asked for on a Friday: the answer runs over the weekend
\* into the next week.
C28_Witness ==
    /\ slotsCall.called /\ Weekday(slotsCall.today) = 4 /\ slotsCall.count = 5
    /\ Len(slotsCall.days) = 5 /\ slotsCall.days[1] = slotsCall.today + 3

----------------------------------------------------------------------------
\* The discount of an area by the inclusive upper bounds 50, 100 and 150 m2
\* (areas in hundredths; 1e307 and inf are above every bound)
ExpectedDiscount(area_m2) ==
    IF area_m2.k # "fin" THEN 15
    ELSE CHOOSE pct \in {0, 5, 10, 15} :
            /\ (pct = 0) <=> (area_m2.v <= 5000)
            /\ (pct = 5) <=> (5000 < area_m2.v /\ area_m2.v <= 10000)
            /\ (pct = 10) <=> (10000 < area_m2.v /\ area_m2.v <= 15000)
            /\ (pct = 15) <=> (area_m2.v > 15000)

\* The amount (in cents, as returned) is the rounding of
\* base * area * multiplier * (100 - pct) / 100: within half a cent of it
\* (compared in units of 1/20000 UAH), or inf when the product is not a
\* finite float
IsAmount(amount, pct) ==
    LET base == BasePricePerM2[slotsCall.cleaning_type]
        mult == PropertyMultiplier[slotsCall.property_type]
    IN IF slotsCall.area_m2.k = "fin"
       THEN /\ amount.k = "fin"
            /\ amount.v * 200 - base * slotsCall.area_m2.v * mult * ((100 - pct) \div 5)
                  \in -100..100
       ELSE amount.k = "inf"

\* C29: for every service type, property type and area above 0 the quote has
\* priceBeforeDiscount = basePrice * area * multiplier and finalPrice =
\* priceBeforeDiscount * (1 - discountPercent / 100), each rounded to cents,
\* with discountPercent 0 up to 50 m2, 5 above 50 up to 100, 10 above 100 up
\* to 150 and 15 above 150.
C29_QuoteFormula ==
    slotsCall.called =>
        LET q == slotsCall.price_info
        IN /\ q.discount_percent = ExpectedDiscount(slotsCall.area_m2)
           /\ IsAmount(q.price_before_discount, 0)
           /\ IsAmount(q.final_price, q.discount_percent)

\* A quote for 50.01 m2: the first area of the second tier.
C29_Witness ==
    /\ slotsCall.called /\ slotsCall.area_m2 = Fin(5001)
    /\ slotsCall.price_info.discount_percent = 5
    /\ slotsCall.price_info.final_price.v < slotsCall.price_info.price_before_discount.v

\* a <= b in floats
FloatLe(a, b) ==
    /\ a.k # "nan" /\ b.k # "nan"
    /\ \/ b.k = "inf"
       \/ a.k = "fin" /\ b.k = "fin" /\ a.v <= b.v

\* C30: for every valid input with area above 0 the quote, its amounts
\* rounded to cents, has finalPrice <= priceBeforeDiscount and
\* discountAmount + finalPrice within one cent of priceBeforeDiscount.
C30_QuoteConsistent ==
    slotsCall.called =>
        LET q == slotsCall.price_info
        IN /\ FloatLe(q.final_price, q.price_before_discount)
           /\ q.discount_amount.k = "fin" /\ q.final_price.k = "fin"
           /\ q.price_before_discount.k = "fin"
           /\ q.discount_amount.v + q.final_price.v - q.price_before_discount.v \in -1..1

\* The same for the areas whose amounts are finite floats
C30_FiniteQuoteConsistent ==
    (slotsCall.called /\ slotsCall.area_m2.k = "fin") => C30_QuoteConsistent

----------------------------------------------------------------------------
\* The discount of an area of whole m2, and the amount in cents of
\* base price * area * multiplier less pct percent
TierOf(a) == IF a <= 50 THEN 0 ELSE IF a <= 100 THEN 5 ELSE IF a <= 150 THEN 10 ELSE 15

Cents(cleaning_type, property_type, a, pct) ==
    (BasePricePerM2[cleaning_type] * a * PropertyMultiplier[property_type] * (100 - pct))
        \div 10

\* C31: after start, calculate_price, cleaning_type:s, property_type:p, a text
\* that parses to an area a > 0 is answered by the price message alone, and
\* the message reports the quote of the stored s and p and of the entered a:
\* the final price, and for an area above 50 m2 the discount and the price
\* before it; for deep, apartment, 60 a discount of 5% and 4560.00.
C31_PriceMessageReportsQuote ==
    [][\A c \in Conv :
          (/\ Handles(c, "text", "entering_area") /\ IsArea(last'.input[1])
           /\ Has(data[c], "cleaning_type") /\ Has(data[c], "property_type")
           /\ data[c]["cleaning_type"] \in base_prices
           /\ data[c]["property_type"] \in property_multipliers)
          => LET s == data[c]["cleaning_type"]
                 p == data[c]["property_type"]
                 a == Float(last'.input[1])[1]
                 shown == last'.out[1].arg[4]
             IN /\ Messages = <<"price">>
                /\ SubSeq(last'.out[1].arg, 1, 3) = <<s, p, a>>
                /\ shown.final_price = Fin(Cents(s, p, a, TierOf(a)))
                /\ TierOf(a) = 0 => DOMAIN shown = {"final_price"}
                /\ TierOf(a) > 0 =>
                      /\ shown.discount_percent = TierOf(a)
                      /\ shown.price_before_discount = Fin(Cents(s, p, a, 0))
                      /\ shown.discount_amount
                            = Fin(Cents(s, p, a, 0) - Cents(s, p, a, TierOf(a)))
                /\ (s = "deep" /\ p = "apartment" /\ a = 60)
                      => shown.discount_percent = 5 /\ shown.final_price = Fin(456000)
      ]_vars

\* 60 was typed at the area step of a draft that held deep and apartment;
\* the price shown is 4560.00 and the draft holds the area.
C31_Witness ==
    /\ Handled /\ last.ev = "text" /\ last.input = <<"60">> /\ Sent("price")
    /\ last.out[1].arg[1] = "deep" /\ last.out[1].arg[2] = "apartment"
    /\ last.out[1].arg[4].final_price = Fin(456000)
    /\ data[last.conv]["area_m2"] = 60

----------------------------------------------------------------------------
\* The action strings the keyboards emit on the calendar as it is: the
\* buttons of the fixed keyboards, of the date keyboard and of the time
\* keyboards of the searched days, and the two sentinels
EmittedActions ==
    Elements(get_start_keyboard) \cup Elements(get_cleaning_type_keyboard)
        \cup Elements(get_property_type_keyboard) \cup Elements(get_book_cleaning_keyboard)
        \cup UNION {Elements(get_date_selection_keyboard(calendar_service)) :
                        calendar_service \in {"ok", "none"}}
        \cup UNION {Elements(get_time_selection_keyboard(d, calendar_service)) :
                        d \in SearchedDays, calendar_service \in {"ok", "none"}}
        \cup { <<"no_slots_available">>, <<"no_available_days">> }

\* C32: a press of any action string a keyboard of the bot can emit is routed
\* by the callback handler to a transition of its own; it is never answered
\* as an unknown action.
C32_EveryButtonRouted ==
    [][(/\ last'.conv = "A" /\ last'.ev \notin {"start", "text", "location"}
        /\ last'.input \in EmittedActions)
          => "unknown_action" \notin Elements(Messages)
      ]_vars

----------------------------------------------------------------------------
\* C33: between updates, a conversation in no state has an empty draft: no
\* sequence of button presses, texts, location shares and start commands
\* leaves a draft field set while the state is None.
C33_IdleDraftEmpty ==
    \A c \in Conv : fsm[c] = NONE => data[c] = EmptyData

----------------------------------------------------------------------------
\* C34: a conversation in entering_address has both selected_date and
\* selected_time set in its draft, and every address accepted there is
\* followed by one calendar submission attempt (none is skipped for a
\* missing date or time).
C34_AddressStepHasDateAndTime ==
    [][\A c \in Conv :
          /\ fsm'[c] = "entering_address"
                => Has(data'[c], "selected_date") /\ Has(data'[c], "selected_time")
          /\ (/\ last'.conv = c /\ last'.ev \in {"text", "location"}
              /\ fsm[c] = "entering_address"
              /\ Elements(Messages) \cap {"address_saved", "location_received"} # {})
                => Cardinality({i \in 1..Len(last'.out) : last'.out[i].msg = "calendar"}) = 1
      ]_vars

----------------------------------------------------------------------------
\* The messages whose handler has sent the confirmation
ConfirmedBy ==
    {m \in DOMAIN inflight :
        \E i \in 1..Len(inflight[m].out) : inflight[m].out[i].msg = "booking_confirmed"}

\* C35: for one booking (one stay at the address step), however the handlers
\* of two address messages in flight interleave, at most one reservation is
\* submitted and at most one confirmation is sent.
C35_OneBookingWhenInterleaved ==
    /\ Cardinality(Reservations) <= 1
    /\ Cardinality(ConfirmedBy) <= 1

----------------------------------------------------------------------------
\* C36: for a weekday, working hours with work_start < work_end, a slot
\* interval of 1 hour or more and any busy intervals,
\* generate_available_time_slots returns a list and does not raise; the
\* candidates stop before midnight, none rolling over to the next day.
C36_SlotGenerationReturns ==
    (/\ slotsCall.called /\ Weekday(CallDate) < 5
     /\ slotsCall.work_start < slotsCall.work_end /\ slotsCall.slot_interval_hours >= 1)
        => /\ ~slotsCall.result.raised
           /\ Ascending(slotsCall.result.slots)
           /\ \A i \in 1..Len(slotsCall.result.slots) :
                 /\ slotsCall.result.slots[i] >= slotsCall.work_start
                 /\ slotsCall.result.slots[i] < slotsCall.work_end

----------------------------------------------------------------------------
\* C37: with the working hours, the slot interval and the cleaning duration
\* of config.py, a reservation made from a slot a time keyboard offers lies
\* inside the working hours of its day: it starts at or after
\* CALENDAR_WORK_START and ends, the cleaning duration later, at or before
\* CALENDAR_WORK_END.
C37_ReservationInsideWorkingHours ==
    [][(Len(calendar') = Len(calendar) + 1 /\ Added.by = "flow")
          => /\ EventDate(Added) = FromIsoFormat(slotsCall'.date)
             /\ EventTime(Added) >= CALENDAR_WORK_START
             /\ Added.end - Added.start = CALENDAR_CLEANING_DURATION_HOURS * 60
             /\ EventTime(Added) + CALENDAR_CLEANING_DURATION_HOURS * 60
                   <= CALENDAR_WORK_END
      ]_vars

\* The last slot of a day, 16:00, was offered and booked: the reservation
\* ends at 18:00.
C37_Witness ==
    /\ slotsCall.called /\ slotsCall.pressed = <<"select_time", "16", "00">>
    /\ Len(calendar) >= 1 /\ calendar[Len(calendar)].by = "flow"
    /\ EventTime(calendar[Len(calendar)]) = Time(16, 0)
    /\ EventTime(calendar[Len(calendar)]) + CALENDAR_CLEANING_DURATION_HOURS * 60
          = CALENDAR_WORK_END

----------------------------------------------------------------------------
\* The calls of the calendar and of the owner's notification among effects
Calls(out) == SelectSeq(out, LAMBDA e : e.msg \in {"calendar", "notify_owner"})

\* C38: on every sequence of updates the handlers main.py registers (B) and
\* the handlers of the handlers/ package (A) leave the conversation in the
\* same state with the same draft, and make the same calls of the calendar
\* and of the owner's notification.
C38_MainMatchesPackage ==
    /\ fsm["B"] = fsm["A"]
    /\ data["B"] = data["A"]
    /\ slotsCall.called => Calls(slotsCall.out) = Calls(last.out)

====
